---------------------------- MODULE Spec2Model ----------------------------
(***************************************************************************)
(* Conic-perspective wireframe renderer (MICRO SISTEMAS, Nov/1982, Go      *)
(* reimplementation): the figure loader and validator, the projector and   *)
(* the draw pipeline.                                                      *)
(*                                                                         *)
(* float64 values are modelled by exact rationals [n, d] in lowest terms,  *)
(* extended with the three IEEE-754 specials a division by zero produces   *)
(* (d = 0: n = 1 is +Inf, n = -1 is -Inf, n = 0 is NaN).  Rounding of the  *)
(* binary representation is not modelled.                                  *)
(***************************************************************************)
EXTENDS Integers, Sequences, FiniteSets, TLC

VARIABLES
    file,       \* the YAML file handed to the loader: read/parse outcome and decoded content
    figure,     \* the types.Figure the caller holds (the *types.Figure argument)
    cfg,        \* the RenderConfig the caller holds
    renderer,   \* the Renderer3D fields width, height, camera, centerX, centerY
    context,    \* the gg.Context of the renderer: current colour, line width, surface
    call,       \* the last operation called, with its arguments
    ret,        \* what the last operation returned
    pc,         \* "run"; "panicked" once a Go runtime panic has ended the process;
                \* "done" once the call a run consists of has returned
    viewer,     \* the fields of the viewer's GUI not held above: canvas size, the
                \* four camera controls, the image shown and the status text
    output      \* the image file written by SaveImage, nil while there is none

vars == <<file, figure, cfg, renderer, context, call, ret, pc, viewer, output>>

-----------------------------------------------------------------------------
(* Bounds of the model *)

\* longest list of points of a figure
MaxPontos == 2
\* longest list of edges of a figure
MaxLinhas == 2

-----------------------------------------------------------------------------
(* float64 arithmetic *)

Abs(x) == IF x < 0 THEN -x ELSE x

Sgn(x) == IF x > 0 THEN 1 ELSE IF x < 0 THEN -1 ELSE 0

RECURSIVE Gcd(_, _)
Gcd(a, b) == IF b = 0 THEN a ELSE Gcd(b, a % b)

\* the float64 value n/d (d = 0: a special)
Rat(n, d) ==
    IF d = 0 THEN [n |-> Sgn(n), d |-> 0]
    ELSE LET g == Gcd(Abs(n), Abs(d))
         IN  [n |-> (Sgn(d) * n) \div g, d |-> Abs(d) \div g]

\* the float64 value of an integer, and of a decimal literal with one digit
\* after the point (12.8 is Tenths(128))
Int2F(k) == Rat(k, 1)
Tenths(k) == Rat(k, 10)

FAdd(a, b) == Rat(a.n * b.d + b.n * a.d, a.d * b.d)
FSub(a, b) == Rat(a.n * b.d - b.n * a.d, a.d * b.d)
FMul(a, b) == Rat(a.n * b.n, a.d * b.d)
FDiv(a, b) == Rat(a.n * b.d, a.d * b.n)

IsFinite(a) == a.d # 0
\* comparisons of finite values
FLeq(a, b) == a.n * b.d <= b.n * a.d
FLt(a, b) == a.n * b.d < b.n * a.d
FZero == Int2F(0)

\* math.Round of a finite value: to the nearest integer, halves away from zero
FRound(a) ==
    IF a.n >= 0 THEN Int2F((2 * a.n + a.d) \div (2 * a.d))
    ELSE Int2F(-((2 * (-a.n) + a.d) \div (2 * a.d)))

-----------------------------------------------------------------------------
(* Data model: pkg/types *)

\* the nil pointer / nil error
Nil == [nil |-> TRUE]

Point3D(x, y, z, nome) == [X |-> x, Y |-> y, Z |-> z, Nome |-> nome]

Point2D(x, y) == [X |-> x, Y |-> y]

Line(p1, p2) == [P1 |-> p1, P2 |-> p2]

Camera(observer, distance, width, height) ==
    [Observer |-> observer, Distance |-> distance, Width |-> width, Height |-> height]

\* a *bool that is not nil: a pointer to b
Ptr(b) == [val |-> b]

\* types.RenderSettings; a text is the sequence of its characters, a *bool is
\* Nil or Ptr(b); the canvas size is not set
RenderSettings(background, lineColor, vertexColor, lineWidth, showVertices, showLabels) ==
    [CanvasWidth |-> 0, CanvasHeight |-> 0,
     Background |-> background, LineColor |-> lineColor, VertexColor |-> vertexColor,
     LineWidth |-> lineWidth, ShowVertices |-> showVertices, ShowLabels |-> showLabels]

\* types.Figure without render settings (Render is nil)
Figure(pontos, linhas, camera) ==
    [Pontos |-> pontos, Linhas |-> linhas, Camera |-> camera, Render |-> Nil]

\* the zero value of types.Camera: what a YAML file without a camera decodes to
ZeroCamera == Camera(Point3D(FZero, FZero, FZero, ""), FZero, FZero, FZero)

DefaultCamera ==
    Camera(Point3D(Int2F(0), Int2F(0), Int2F(0), ""), Int2F(10), Tenths(128), Tenths(96))

-----------------------------------------------------------------------------
(* Validator and loader: internal/core/loader.go *)

ErrNoPoints == [msg |-> "figura deve ter pelo menos um ponto"]
ErrNoLines == [msg |-> "figura deve ter pelo menos uma linha"]
\* "linha %d referencia ponto P1 invalido: %d (deve estar entre 0 e %d)"; Go
\* numbers the edges from 0, a sequence from 1
ErrP1(i, linha, f) ==
    [msg |-> "referencia ponto P1 invalido", linha |-> i - 1, ponto |-> linha.P1,
     min |-> 0, max |-> Len(f.Pontos) - 1]
ErrP2(i, linha, f) ==
    [msg |-> "referencia ponto P2 invalido", linha |-> i - 1, ponto |-> linha.P2,
     min |-> 0, max |-> Len(f.Pontos) - 1]

\* mutant: P2 is checked before P1
RECURSIVE validateLinhas_P2First(_, _)
validateLinhas_P2First(f, i) ==
    IF i > Len(f.Linhas) THEN Nil
    ELSE LET linha == f.Linhas[i]
         IN  IF linha.P2 < 0 \/ linha.P2 >= Len(f.Pontos) THEN ErrP2(i, linha, f)
             ELSE IF linha.P1 < 0 \/ linha.P1 >= Len(f.Pontos) THEN ErrP1(i, linha, f)
             ELSE validateLinhas_P2First(f, i + 1)

\* mutant: the upper bound of an edge index is off by one (> for >=)
RECURSIVE validateLinhas_OffByOne(_, _)
validateLinhas_OffByOne(f, i) ==
    IF i > Len(f.Linhas) THEN Nil
    ELSE LET linha == f.Linhas[i]
         IN  IF linha.P1 < 0 \/ linha.P1 > Len(f.Pontos) THEN ErrP1(i, linha, f)
             ELSE IF linha.P2 < 0 \/ linha.P2 > Len(f.Pontos) THEN ErrP2(i, linha, f)
             ELSE validateLinhas_OffByOne(f, i + 1)

\* the loop over figure.Linhas, from edge i on
RECURSIVE validateLinhas(_, _)
validateLinhas(f, i) ==
    IF i > Len(f.Linhas) THEN Nil
    ELSE LET linha == f.Linhas[i]
         IN  IF linha.P1 < 0 \/ linha.P1 >= Len(f.Pontos) THEN ErrP1(i, linha, f)
             ELSE IF linha.P2 < 0 \/ linha.P2 >= Len(f.Pontos) THEN ErrP2(i, linha, f)
             ELSE validateLinhas(f, i + 1)

validateFigure(f) ==
    IF Len(f.Pontos) = 0 THEN ErrNoPoints
    ELSE IF Len(f.Linhas) = 0 THEN ErrNoLines
    ELSE validateLinhas(f, 1)

\* mutant: only the distance is defaulted, the other camera fields are kept
applyDefaults_DistanceOnly(f) ==
    IF f.Camera.Distance = FZero
    THEN [f EXCEPT !.Camera.Distance = DefaultCamera.Distance]
    ELSE f

\* the camera defaulting of LoadFigureFromYAML
applyDefaults(f) ==
    IF f.Camera.Distance = FZero THEN [f EXCEPT !.Camera = DefaultCamera] ELSE f

\* mutant: the decoded figure is returned beside a validation error
LoadFigureFromYAML_FigureWithError(fl) ==
    IF fl.readErr THEN [figure |-> Nil, err |-> [msg |-> "erro ao ler arquivo"]]
    ELSE IF fl.parseErr THEN [figure |-> Nil, err |-> [msg |-> "erro ao parsear YAML"]]
    ELSE LET f == applyDefaults(fl.content)
             err == validateFigure(f)
         IN  IF err # Nil
             THEN [figure |-> f, err |-> [msg |-> "figura invalida", cause |-> err]]
             ELSE [figure |-> f, err |-> Nil]

\* LoadFigureFromYAML: os.ReadFile and yaml.Unmarshal are the file's recorded
\* outcomes; the result is the pair (figure, err)
LoadFigureFromYAML(fl) ==
    IF fl.readErr THEN [figure |-> Nil, err |-> [msg |-> "erro ao ler arquivo"]]
    ELSE IF fl.parseErr THEN [figure |-> Nil, err |-> [msg |-> "erro ao parsear YAML"]]
    ELSE LET f == applyDefaults(fl.content)
             err == validateFigure(f)
         IN  IF err # Nil
             THEN [figure |-> Nil, err |-> [msg |-> "figura invalida", cause |-> err]]
             ELSE [figure |-> f, err |-> Nil]

-----------------------------------------------------------------------------
(* Drawing context: the gg.Context primitives the renderer calls.  The     *)
(* surface is the colour of the last Clear and the draw operations since.  *)

RGB(r, g, b) == [R |-> r, G |-> g, B |-> b]

ctxSetRGB(ctx, col) == [ctx EXCEPT !.color = col]

ctxSetLineWidth(ctx, w) == [ctx EXCEPT !.lineWidth = w]

ctxClear(ctx) == [ctx EXCEPT !.surface = [fill |-> ctx.color, ops |-> <<>>]]

ctxDraw(ctx, op) == [ctx EXCEPT !.surface.ops = Append(@, op)]

\* MoveTo(p1); LineTo(p2); Stroke()
ctxStrokeLine(ctx, p1, p2) ==
    ctxDraw(ctx, [op |-> "stroke", from |-> p1, to |-> p2,
                  color |-> ctx.color, lineWidth |-> ctx.lineWidth])

\* DrawCircle(x, y, radius); Fill()
ctxFillCircle(ctx, p, radius) ==
    ctxDraw(ctx, [op |-> "disc", at |-> p, radius |-> radius, color |-> ctx.color])

\* DrawString(s, x, y)
ctxDrawString(ctx, s, p) ==
    ctxDraw(ctx, [op |-> "text", s |-> s, at |-> p, color |-> ctx.color])

-----------------------------------------------------------------------------
(* Renderer: internal/renderer/renderer.go *)

White == RGB(Int2F(1), Int2F(1), Int2F(1))
Black == RGB(Int2F(0), Int2F(0), Int2F(0))

\* gg.NewContext(width, height): black, line width 1, nothing drawn
NewContext == [color |-> Black, lineWidth |-> Int2F(1),
               surface |-> [fill |-> Nil, ops |-> <<>>]]

\* New: the context after SetRGB(1,1,1); Clear(); SetRGB(0,0,0); SetLineWidth(1.0)
NewCtx == ctxSetLineWidth(ctxSetRGB(ctxClear(ctxSetRGB(NewContext, White)), Black), Int2F(1))

\* New: the Renderer3D; camera is left at its zero value
New(width, height) ==
    [width |-> width, height |-> height, camera |-> ZeroCamera,
     centerX |-> FDiv(Int2F(width), Int2F(2)),
     centerY |-> FDiv(Int2F(height), Int2F(2))]

SetCamera(r, camera) == [r EXCEPT !.camera = camera]

\* mutant: only a depth at or behind the observer is replaced
clampPz_NonPositiveOnly(pz) == IF FLeq(pz, FZero) THEN Tenths(1) ELSE pz

\* the guard against a division by zero: pz <= 0.1 becomes 0.1
clampPz(pz) == IF FLeq(pz, Tenths(1)) THEN Tenths(1) ELSE pz

\* mutant: world Y taken as the vertical axis and world Z as the depth
ProjectPoint_AxesSwapped(r, p) ==
    LET px == FSub(p.X, r.camera.Observer.X)
        py == FSub(p.Y, r.camera.Observer.Y)
        pz == clampPz(FSub(p.Z, r.camera.Observer.Z))
        projX == FDiv(FMul(px, r.camera.Distance), pz)
        projY == FDiv(FMul(py, r.camera.Distance), pz)
        scaleX == FDiv(Int2F(r.width), r.camera.Width)
        scaleY == FDiv(Int2F(r.height), r.camera.Height)
        screenX == FAdd(r.centerX, FMul(projX, scaleX))
        screenY == FSub(r.centerY, FMul(projY, scaleY))
    IN  Point2D(screenX, screenY)

\* mutant: the vertical coordinate is divided by the depth but not multiplied
\* by the distance of the projection plane
ProjectPoint_DistanceOnXOnly(r, p) ==
    LET px == FSub(p.X, r.camera.Observer.X)
        py == FSub(p.Z, r.camera.Observer.Z)
        pz == clampPz(FSub(p.Y, r.camera.Observer.Y))
        projX == FDiv(FMul(px, r.camera.Distance), pz)
        projY == FDiv(py, pz)
        scaleX == FDiv(Int2F(r.width), r.camera.Width)
        scaleY == FDiv(Int2F(r.height), r.camera.Height)
        screenX == FAdd(r.centerX, FMul(projX, scaleX))
        screenY == FSub(r.centerY, FMul(projY, scaleY))
    IN  Point2D(screenX, screenY)

ProjectPoint(r, p) ==
    LET px == FSub(p.X, r.camera.Observer.X)
        py == FSub(p.Z, r.camera.Observer.Z)
        pz == clampPz(FSub(p.Y, r.camera.Observer.Y))
        projX == FDiv(FMul(px, r.camera.Distance), pz)
        projY == FDiv(FMul(py, r.camera.Distance), pz)
        scaleX == FDiv(Int2F(r.width), r.camera.Width)
        scaleY == FDiv(Int2F(r.height), r.camera.Height)
        screenX == FAdd(r.centerX, FMul(projX, scaleX))
        screenY == FSub(r.centerY, FMul(projY, scaleY))
    IN  Point2D(screenX, screenY)

\* pontos2D: every vertex projected, index-aligned with figure.Pontos
projectAll(r, pontos) == [i \in 1..Len(pontos) |-> ProjectPoint(r, pontos[i])]

\* mutant: the last vertex counts as out of range
skipLinha_OffByOne(linha, n) == linha.P1 >= n - 1 \/ linha.P2 >= n - 1

\* the safety check of the edge loop: TRUE when the edge is skipped
skipLinha(linha, n) == linha.P1 >= n \/ linha.P2 >= n

\* pontos2D[linha.P1] or pontos2D[linha.P2] with a negative index: Go panics
\* (index out of range)
indexPanics(linha) == linha.P1 < 0 \/ linha.P2 < 0

\* the edge loop from edge i on; Go indexes pontos2D from 0, a sequence from 1
RECURSIVE drawLinhas(_, _, _, _)
drawLinhas(ctx, linhas, pontos2D, i) ==
    IF i > Len(linhas) THEN [context |-> ctx, panic |-> FALSE]
    ELSE LET linha == linhas[i]
         IN  IF skipLinha(linha, Len(pontos2D))
             THEN drawLinhas(ctx, linhas, pontos2D, i + 1)
             ELSE IF indexPanics(linha)
             THEN [context |-> ctx, panic |-> TRUE]
             ELSE drawLinhas(ctxStrokeLine(ctx, pontos2D[linha.P1 + 1],
                                           pontos2D[linha.P2 + 1]),
                             linhas, pontos2D, i + 1)

\* the label position: (p2D.X + 5, p2D.Y - 5)
labelAt(p2D) == Point2D(FAdd(p2D.X, Int2F(5)), FSub(p2D.Y, Int2F(5)))

\* mutant: the vertex colour is not set again after a label
RECURSIVE drawVertices_ColourNotRestored(_, _, _, _, _)
drawVertices_ColourNotRestored(ctx, pontos, pontos2D, c, i) ==
    IF i > Len(pontos2D) THEN ctx
    ELSE LET disc == ctxFillCircle(ctx, pontos2D[i], 2)
             next == IF c.ShowLabels /\ pontos[i].Nome # ""
                     THEN ctxDrawString(ctxSetRGB(disc, c.LineColor),
                                        pontos[i].Nome, labelAt(pontos2D[i]))
                     ELSE disc
         IN  drawVertices_ColourNotRestored(next, pontos, pontos2D, c, i + 1)

\* the vertex loop (ShowVertices) from vertex i on: a disc of radius 2, then the
\* label in the line colour and back to the vertex colour
RECURSIVE drawVertices(_, _, _, _, _)
drawVertices(ctx, pontos, pontos2D, c, i) ==
    IF i > Len(pontos2D) THEN ctx
    ELSE LET disc == ctxFillCircle(ctx, pontos2D[i], 2)
             next == IF c.ShowLabels /\ pontos[i].Nome # ""
                     THEN ctxSetRGB(ctxDrawString(ctxSetRGB(disc, c.LineColor),
                                                  pontos[i].Nome, labelAt(pontos2D[i])),
                                    c.VertexColor)
                     ELSE disc
         IN  drawVertices(next, pontos, pontos2D, c, i + 1)

\* the label loop (ShowLabels without ShowVertices) from vertex i on
RECURSIVE drawLabels(_, _, _, _, _)
drawLabels(ctx, pontos, pontos2D, c, i) ==
    IF i > Len(pontos2D) THEN ctx
    ELSE IF pontos[i].Nome = "" THEN drawLabels(ctx, pontos, pontos2D, c, i + 1)
    ELSE drawLabels(ctxDrawString(ctxSetRGB(ctx, c.LineColor),
                                  pontos[i].Nome, labelAt(pontos2D[i])),
                    pontos, pontos2D, c, i + 1)

\* mutant: labels are drawn only together with the vertices
drawMarkers_LabelsNeedVertices(ctx, pontos, pontos2D, c) ==
    IF c.ShowVertices
    THEN ctxSetRGB(drawVertices(ctxSetRGB(ctx, c.VertexColor), pontos, pontos2D, c, 1),
                   c.LineColor)
    ELSE ctx

\* mutant: the line colour is not set again after the vertex loop
drawMarkers_LineColourNotRestored(ctx, pontos, pontos2D, c) ==
    IF c.ShowVertices
    THEN drawVertices(ctxSetRGB(ctx, c.VertexColor), pontos, pontos2D, c, 1)
    ELSE IF c.ShowLabels
    THEN ctxSetRGB(drawLabels(ctx, pontos, pontos2D, c, 1), c.LineColor)
    ELSE ctx

\* the optional part of the render: vertices and labels
drawMarkers(ctx, pontos, pontos2D, c) ==
    IF c.ShowVertices
    THEN ctxSetRGB(drawVertices(ctxSetRGB(ctx, c.VertexColor), pontos, pontos2D, c, 1),
                   c.LineColor)
    ELSE IF c.ShowLabels
    THEN ctxSetRGB(drawLabels(ctx, pontos, pontos2D, c, 1), c.LineColor)
    ELSE ctx

ErrRenderNoPoints == [msg |-> "figura nao possui pontos"]

\* mutant: the surface is cleared and styled before the figure is looked at
RenderFigureWithConfig_ClearsFirst(r, ctx, f, c) ==
    LET cleared == ctxClear(ctxSetRGB(ctx, c.Background))
        styled == ctxSetLineWidth(ctxSetRGB(cleared, c.LineColor), c.LineWidth)
        pontos2D == projectAll(r, f.Pontos)
        edges == drawLinhas(styled, f.Linhas, pontos2D, 1)
    IN  IF Len(f.Pontos) = 0
        THEN [context |-> styled, err |-> ErrRenderNoPoints, panic |-> FALSE]
        ELSE IF edges.panic
        THEN [context |-> edges.context, err |-> Nil, panic |-> TRUE]
        ELSE [context |-> drawMarkers(edges.context, f.Pontos, pontos2D, c),
              err |-> Nil, panic |-> FALSE]

\* mutant: vertices and labels are drawn before the edges
RenderFigureWithConfig_MarkersFirst(r, ctx, f, c) ==
    IF Len(f.Pontos) = 0
    THEN [context |-> ctx, err |-> ErrRenderNoPoints, panic |-> FALSE]
    ELSE LET cleared == ctxClear(ctxSetRGB(ctx, c.Background))
             styled == ctxSetLineWidth(ctxSetRGB(cleared, c.LineColor), c.LineWidth)
             pontos2D == projectAll(r, f.Pontos)
             marked == drawMarkers(styled, f.Pontos, pontos2D, c)
             edges == drawLinhas(marked, f.Linhas, pontos2D, 1)
         IN  [context |-> edges.context, err |-> Nil, panic |-> edges.panic]

\* mutant: the background colour is set but the surface is not cleared
RenderFigureWithConfig_NoClear(r, ctx, f, c) ==
    IF Len(f.Pontos) = 0
    THEN [context |-> ctx, err |-> ErrRenderNoPoints, panic |-> FALSE]
    ELSE LET cleared == ctxSetRGB(ctx, c.Background)
             styled == ctxSetLineWidth(ctxSetRGB(cleared, c.LineColor), c.LineWidth)
             pontos2D == projectAll(r, f.Pontos)
             edges == drawLinhas(styled, f.Linhas, pontos2D, 1)
         IN  IF edges.panic
             THEN [context |-> edges.context, err |-> Nil, panic |-> TRUE]
             ELSE [context |-> drawMarkers(edges.context, f.Pontos, pontos2D, c),
                   err |-> Nil, panic |-> FALSE]

\* RenderFigureWithConfig: the context it leaves, the error it returns, and
\* whether it panicked (then it returns nothing)
RenderFigureWithConfig(r, ctx, f, c) ==
    IF Len(f.Pontos) = 0
    THEN [context |-> ctx, err |-> ErrRenderNoPoints, panic |-> FALSE]
    ELSE LET cleared == ctxClear(ctxSetRGB(ctx, c.Background))
             styled == ctxSetLineWidth(ctxSetRGB(cleared, c.LineColor), c.LineWidth)
             pontos2D == projectAll(r, f.Pontos)
             edges == drawLinhas(styled, f.Linhas, pontos2D, 1)
         IN  IF edges.panic
             THEN [context |-> edges.context, err |-> Nil, panic |-> TRUE]
             ELSE [context |-> drawMarkers(edges.context, f.Pontos, pontos2D, c),
                   err |-> Nil, panic |-> FALSE]

\* the spacing of the grid lines, in pixels
GridStep == 50

\* the loop of vertical lines from x on: x < r.width, x += 50
RECURSIVE gridVertical(_, _, _)
gridVertical(r, ctx, x) ==
    IF x >= r.width THEN ctx
    ELSE gridVertical(r, ctxStrokeLine(ctx, Point2D(Int2F(x), Int2F(0)),
                                       Point2D(Int2F(x), Int2F(r.height))),
                      x + GridStep)

\* the loop of horizontal lines from y on: y < r.height, y += 50
RECURSIVE gridHorizontal(_, _, _)
gridHorizontal(r, ctx, y) ==
    IF y >= r.height THEN ctx
    ELSE gridHorizontal(r, ctxStrokeLine(ctx, Point2D(Int2F(0), Int2F(y)),
                                         Point2D(Int2F(r.width), Int2F(y))),
                        y + GridStep)

\* AddGrid: light grey lines of width 0.5, then SetRGB(0, 0, 0) and
\* SetLineWidth(1.0)
AddGrid(r, ctx) ==
    LET grey == ctxSetLineWidth(ctxSetRGB(ctx, RGB(Tenths(9), Tenths(9), Tenths(9))),
                                Tenths(5))
        lines == gridHorizontal(r, gridVertical(r, grey, 0), 0)
    IN  ctxSetLineWidth(ctxSetRGB(lines, Black), Int2F(1))

DefaultRenderConfig ==
    [Background |-> White, LineColor |-> Black, LineWidth |-> Int2F(1),
     VertexColor |-> RGB(Tenths(8), Int2F(0), Int2F(0)),
     ShowVertices |-> FALSE, ShowLabels |-> FALSE]

-----------------------------------------------------------------------------
(* Colours: internal/renderer/config.go.  A Go string is the sequence of  *)
(* its characters, one-character strings; the model covers ASCII text.    *)

LowerLetters ==
    <<"a", "b", "c", "d", "e", "f", "g", "h", "i", "j", "k", "l", "m",
      "n", "o", "p", "q", "r", "s", "t", "u", "v", "w", "x", "y", "z">>

UpperLetters ==
    <<"A", "B", "C", "D", "E", "F", "G", "H", "I", "J", "K", "L", "M",
      "N", "O", "P", "Q", "R", "S", "T", "U", "V", "W", "X", "Y", "Z">>

\* the digits of base 16 in the order of their values
HexDigits ==
    <<"0", "1", "2", "3", "4", "5", "6", "7", "8", "9", "a", "b", "c", "d", "e", "f">>

\* the position of character c in s, 0 when it is not there
IndexOf(s, c) ==
    IF \E i \in 1..Len(s) : s[i] = c THEN CHOOSE i \in 1..Len(s) : s[i] = c ELSE 0

\* strings.ToLower
ToLower(s) ==
    [i \in 1..Len(s) |->
        LET k == IndexOf(UpperLetters, s[i])
        IN  IF k = 0 THEN s[i] ELSE LowerLetters[k]]

\* unicode.IsSpace on the ASCII characters modelled
IsSpace(c) == c \in {" ", "\t", "\n", "\r"}

RECURSIVE TrimLeft(_)
TrimLeft(s) == IF s # <<>> /\ IsSpace(Head(s)) THEN TrimLeft(Tail(s)) ELSE s

RECURSIVE TrimRight(_)
TrimRight(s) ==
    IF s # <<>> /\ IsSpace(s[Len(s)]) THEN TrimRight(SubSeq(s, 1, Len(s) - 1)) ELSE s

\* mutant: only the leading white space is removed
TrimSpace_LeftOnly(s) == TrimLeft(s)

\* strings.TrimSpace
TrimSpace(s) == TrimRight(TrimLeft(s))

\* strings.HasPrefix
HasPrefix(s, prefix) ==
    Len(s) >= Len(prefix) /\ SubSeq(s, 1, Len(prefix)) = prefix

Gray == RGB(Rat(1, 2), Rat(1, 2), Rat(1, 2))
LightGray == RGB(Rat(82, 100), Rat(82, 100), Rat(82, 100))
DarkGray == RGB(Rat(1, 4), Rat(1, 4), Rat(1, 4))

namedColors ==
    (<<"w", "h", "i", "t", "e">> :> White)
    @@ (<<"b", "l", "a", "c", "k">> :> Black)
    @@ (<<"g", "r", "a", "y">> :> Gray)
    @@ (<<"g", "r", "e", "y">> :> Gray)
    @@ (<<"l", "i", "g", "h", "t", "g", "r", "a", "y">> :> LightGray)
    @@ (<<"l", "i", "g", "h", "t", "g", "r", "e", "y">> :> LightGray)
    @@ (<<"d", "a", "r", "k", "g", "r", "a", "y">> :> DarkGray)
    @@ (<<"d", "a", "r", "k", "g", "r", "e", "y">> :> DarkGray)

\* errors of the colour parsers: fmt.Errorf and *strconv.NumError
ErrEmptyColor == [msg |-> "valor vazio"]
ErrColorFormat(value) == [msg |-> "formato de cor invalido", value |-> value]
ErrSyntax(s) == [msg |-> "strconv.ParseUint: invalid syntax", value |-> s]
ErrRange(s) == [msg |-> "strconv.ParseUint: value out of range", value |-> s]

\* the value of a base-16 digit of either case, -1 for any other character
hexDigitValue(c) == IndexOf(HexDigits, ToLower(<<c>>)[1]) - 1

\* the number written by the base-16 digits s
RECURSIVE hexValue(_)
hexValue(s) ==
    IF s = <<>> THEN 0
    ELSE 16 * hexValue(SubSeq(s, 1, Len(s) - 1)) + hexDigitValue(s[Len(s)])

\* strconv.ParseUint(s, 16, 8) for the strings of up to three characters
ParseUint(s) ==
    IF s = <<>> \/ \E i \in 1..Len(s) : hexDigitValue(s[i]) < 0
    THEN [value |-> 0, err |-> ErrSyntax(s)]
    ELSE IF hexValue(s) > 255
    THEN [value |-> 255, err |-> ErrRange(s)]
    ELSE [value |-> hexValue(s), err |-> Nil]

\* mutant: the byte is normalised by 256 instead of 255
parseHexComponent_Over256(component) ==
    LET u == ParseUint(component)
    IN  IF u.err # Nil THEN [value |-> FZero, err |-> u.err]
        ELSE [value |-> FDiv(FRound(FMul(FDiv(Int2F(u.value), Int2F(256)),
                                         Int2F(1000))),
                             Int2F(1000)),
              err |-> Nil]

\* mutant: a character that is no hex digit counts as the digit 0
parseHexComponent_LenientDigits(component) ==
    LET zeroed == [i \in 1..Len(component) |->
                      IF hexDigitValue(component[i]) < 0 THEN "0" ELSE component[i]]
        u == ParseUint(zeroed)
    IN  [value |-> FDiv(FRound(FMul(FDiv(Int2F(u.value), Int2F(255)), Int2F(1000))),
                        Int2F(1000)),
         err |-> Nil]

\* parseHexComponent: math.Round((float64(v)/255.0)*1000) / 1000
parseHexComponent(component) ==
    LET u == ParseUint(component)
    IN  IF u.err # Nil THEN [value |-> FZero, err |-> u.err]
        ELSE [value |-> FDiv(FRound(FMul(FDiv(Int2F(u.value), Int2F(255)),
                                         Int2F(1000))),
                             Int2F(1000)),
              err |-> Nil]

\* mutant: the three characters are repeated as a group ("f0a" -> "f0af0a")
expandShort_Repeated(v) == v \o v

\* the short form expanded, each character doubled in place ("f0a" -> "ff00aa")
expandShort(v) == <<v[1], v[1], v[2], v[2], v[3], v[3]>>

\* colorRGB{}
ZeroColor == RGB(FZero, FZero, FZero)

\* parseColor: the colour and the error it returns
parseColor(value) ==
    LET v == TrimSpace(ToLower(value))
    IN  IF v = <<>> THEN [color |-> ZeroColor, err |-> ErrEmptyColor]
        ELSE IF v \in DOMAIN namedColors THEN [color |-> namedColors[v], err |-> Nil]
        ELSE LET body == IF HasPrefix(v, <<"#">>) THEN Tail(v) ELSE v
                 hex == IF Len(body) = 3 THEN expandShort(body) ELSE body
             IN  IF Len(hex) # 6
                 THEN [color |-> ZeroColor, err |-> ErrColorFormat(value)]
                 ELSE LET r == parseHexComponent(SubSeq(hex, 1, 2))
                          g == parseHexComponent(SubSeq(hex, 3, 4))
                          b == parseHexComponent(SubSeq(hex, 5, 6))
                      IN  IF r.err # Nil THEN [color |-> ZeroColor, err |-> r.err]
                          ELSE IF g.err # Nil THEN [color |-> ZeroColor, err |-> g.err]
                          ELSE IF b.err # Nil THEN [color |-> ZeroColor, err |-> b.err]
                          ELSE [color |-> RGB(r.value, g.value, b.value), err |-> Nil]

\* errors of ConfigFromFigure: fmt.Errorf("cor ... invalida: %w", err)
ErrBackground(err) == [msg |-> "cor de fundo invalida", cause |-> err]
ErrLineColor(err) == [msg |-> "cor da linha invalida", cause |-> err]
ErrVertexColor(err) == [msg |-> "cor dos vertices invalida", cause |-> err]

\* the background: parsed when its text is not empty (col is the result of
\* parseColor on it); a text that fails ends ConfigFromFigure, c returned as it is
applyBackground(c, settings, col) ==
    IF settings.Background = <<>> THEN [config |-> c, err |-> Nil]
    ELSE IF col.err # Nil THEN [config |-> c, err |-> ErrBackground(col.err)]
    ELSE [config |-> [c EXCEPT !.Background = col.color], err |-> Nil]

\* the line colour, reached when the background has not failed; on a failure
\* the configuration is returned as the background step left it
applyLineColor(res, settings, col) ==
    IF res.err # Nil \/ settings.LineColor = <<>> THEN res
    ELSE IF col.err # Nil THEN [config |-> res.config, err |-> ErrLineColor(col.err)]
    ELSE [config |-> [res.config EXCEPT !.LineColor = col.color], err |-> Nil]

\* the vertex colour, reached when neither colour before it has failed
applyVertexColor(res, settings, col) ==
    IF res.err # Nil \/ settings.VertexColor = <<>> THEN res
    ELSE IF col.err # Nil THEN [config |-> res.config, err |-> ErrVertexColor(col.err)]
    ELSE [config |-> [res.config EXCEPT !.VertexColor = col.color], err |-> Nil]

\* the colour part of ConfigFromFigure: background, line colour and vertex
\* colour in this order
overrideColors(c, settings) ==
    applyVertexColor(
        applyLineColor(
            applyBackground(c, settings, parseColor(settings.Background)),
            settings, parseColor(settings.LineColor)),
        settings, parseColor(settings.VertexColor))

\* mutant: a line width of zero is applied too
overrideWidth_NonNegative(c, settings) ==
    IF FLeq(FZero, settings.LineWidth) THEN [c EXCEPT !.LineWidth = settings.LineWidth]
    ELSE c

\* the line width is applied when it is > 0
overrideWidth(c, settings) ==
    IF FLt(FZero, settings.LineWidth) THEN [c EXCEPT !.LineWidth = settings.LineWidth]
    ELSE c

\* the two flags are applied when their pointers are not nil
overrideFlags(c, settings) ==
    LET c1 == IF settings.ShowVertices # Nil
              THEN [c EXCEPT !.ShowVertices = settings.ShowVertices.val] ELSE c
    IN  IF settings.ShowLabels # Nil
        THEN [c1 EXCEPT !.ShowLabels = settings.ShowLabels.val] ELSE c1

\* the part of ConfigFromFigure after the colours, reached when none has failed
overrideRest(colors, settings) ==
    IF colors.err # Nil THEN colors
    ELSE [config |-> overrideFlags(overrideWidth(colors.config, settings), settings),
          err |-> Nil]

\* ConfigFromFigure: the RenderConfig and the error it returns
ConfigFromFigure(fig) ==
    IF fig = Nil \/ fig.Render = Nil THEN [config |-> DefaultRenderConfig, err |-> Nil]
    ELSE overrideRest(overrideColors(DefaultRenderConfig, fig.Render), fig.Render)

-----------------------------------------------------------------------------
(* Inputs *)

\* all sequences over S of length 0..n
SeqsUpTo(S, n) == UNION {[1..k -> S] : k \in 0..n}

\* a named and an unnamed vertex, both in front of the observer
PontoA == Point3D(Int2F(-1), Int2F(5), Int2F(-1), "A")
PontoB == Point3D(Int2F(1), Int2F(5), Int2F(1), "")

\* edge indices: a negative one, the indices of a two-point figure, one past it
LineIndices == {-1, 0, 1, 2}

LinhaLists == SeqsUpTo({Line(a, b) : a, b \in LineIndices}, MaxLinhas)

Observer0 == Point3D(Int2F(0), Int2F(0), Int2F(0), "")
Observer1 == Point3D(Int2F(1), Int2F(1), Int2F(0), "")

\* cameras a YAML file can decode to: no camera at all, distancia 0 with the
\* other fields given, a full camera, distancia alone, a negative distancia
FileCameras ==
    { ZeroCamera,
      Camera(Observer1, Int2F(0), Int2F(4), Int2F(3)),
      Camera(Observer1, Int2F(8), Tenths(128), Tenths(96)),
      Camera(Observer0, Int2F(15), Int2F(0), Int2F(0)),
      Camera(Observer0, Int2F(-5), Tenths(128), Tenths(96)) }

\* the figures the loader decodes: the vertices are the first k of A, B, A, ...
LoaderPontos == {[i \in 1..k |-> IF i % 2 = 1 THEN PontoA ELSE PontoB] : k \in 0..MaxPontos}

FileContents ==
    {Figure(ps, ls, cam) : ps \in LoaderPontos, ls \in LinhaLists, cam \in FileCameras}

\* files: readable and well-formed ones of every content, and unreadable or
\* malformed ones
Files ==
    {[readErr |-> FALSE, parseErr |-> FALSE, content |-> c] : c \in FileContents}
    \cup {[readErr |-> re, parseErr |-> pe, content |-> c] :
            re \in BOOLEAN, pe \in BOOLEAN,
            c \in {x \in FileContents : Len(x.Linhas) <= 1}}

\* no file to read: the loader is not part of the run
NoFile == [readErr |-> TRUE, parseErr |-> FALSE,
           content |-> Figure(<<>>, <<>>, ZeroCamera)]

-----------------------------------------------------------------------------
(* Loader: validateFigure and LoadFigureFromYAML called on a file *)

InitLoader ==
    /\ viewer = Nil
    /\ output = Nil
    /\ file \in Files
    /\ figure = file.content
    /\ cfg = DefaultRenderConfig
    /\ renderer = New(800, 600)
    /\ context = NewCtx
    /\ call = [op |-> "none"]
    /\ ret = Nil
    /\ pc = "run"

\* validateFigure(&figure): reads the figure, returns an error or nil
ValidateFigureCall ==
    /\ pc = "run"
    /\ call' = [op |-> "validateFigure"]
    /\ ret' = [err |-> validateFigure(figure)]
    /\ UNCHANGED <<viewer, output, file, figure, cfg, renderer, context, pc>>

\* LoadFigureFromYAML(filename)
LoadFigureFromYAMLCall ==
    /\ pc = "run"
    /\ call' = [op |-> "LoadFigureFromYAML"]
    /\ ret' = LoadFigureFromYAML(file)
    /\ UNCHANGED <<viewer, output, file, figure, cfg, renderer, context, pc>>

NextLoader == ValidateFigureCall \/ LoadFigureFromYAMLCall

SpecLoader == InitLoader /\ [][NextLoader]_vars

-----------------------------------------------------------------------------
(* Loader claims *)

\* the three figure invariants: a point, an edge, every edge index in range
WellFormed(f) ==
    /\ Len(f.Pontos) >= 1
    /\ Len(f.Linhas) >= 1
    /\ \A i \in 1..Len(f.Linhas) :
          /\ f.Linhas[i].P1 \in 0..(Len(f.Pontos) - 1)
          /\ f.Linhas[i].P2 \in 0..(Len(f.Pontos) - 1)

\* C3: validateFigure returns nil exactly for the figures with at least one
\* point, at least one edge and every edge index in [0, len(Pontos)-1] (an edge
\* with P1 = P2 is accepted), and it leaves the figure as it was.
C3_ValidateIffWellFormed ==
    [][call'.op = "validateFigure" =>
          /\ figure' = figure
          /\ (ret'.err = Nil <=> WellFormed(figure))]_vars

C3_Witness ==
    /\ call.op = "validateFigure"
    /\ ret.err = Nil
    /\ \E i \in 1..Len(figure.Linhas) : figure.Linhas[i].P1 = figure.Linhas[i].P2

BadIndex(f, k) == k < 0 \/ k > Len(f.Pontos) - 1
BadLinha(f, i) == BadIndex(f, f.Linhas[i].P1) \/ BadIndex(f, f.Linhas[i].P2)

\* the one error the claim expects: the first failing check
FirstError(f) ==
    IF Len(f.Pontos) = 0 THEN [msg |-> "figura deve ter pelo menos um ponto"]
    ELSE IF Len(f.Linhas) = 0 THEN [msg |-> "figura deve ter pelo menos uma linha"]
    ELSE IF \A i \in 1..Len(f.Linhas) : ~BadLinha(f, i) THEN Nil
    ELSE LET i == CHOOSE j \in 1..Len(f.Linhas) :
                     BadLinha(f, j) /\ \A k \in 1..(j - 1) : ~BadLinha(f, k)
             l == f.Linhas[i]
         IN  IF BadIndex(f, l.P1)
             THEN [msg |-> "referencia ponto P1 invalido", linha |-> i - 1,
                   ponto |-> l.P1, min |-> 0, max |-> Len(f.Pontos) - 1]
             ELSE [msg |-> "referencia ponto P2 invalido", linha |-> i - 1,
                   ponto |-> l.P2, min |-> 0, max |-> Len(f.Pontos) - 1]

\* C4: validateFigure reports the first failing check only: no points, then no
\* edges, then the first edge in list order with a bad index, P1 before P2, with
\* that edge's position, the offending index and the range 0..len(Pontos)-1.
C4_FirstErrorReported ==
    call.op = "validateFigure" => ret.err = FirstError(figure)

\* two edges, the first one fine, the second with both indices out of range
C4_Witness ==
    /\ call.op = "validateFigure"
    /\ Len(figure.Linhas) = 2
    /\ ~BadLinha(figure, 1)
    /\ BadIndex(figure, figure.Linhas[2].P1)
    /\ BadIndex(figure, figure.Linhas[2].P2)
    /\ ret.err.msg = "referencia ponto P1 invalido"
    /\ ret.err.linha = 1

\* C5: LoadFigureFromYAML returns a figure and no error, or an error and no
\* figure; a returned figure satisfies the three figure invariants; a read,
\* parse or validation failure yields no figure.
C5_FigureXorError ==
    call.op = "LoadFigureFromYAML" =>
        /\ \/ (ret.figure # Nil /\ ret.err = Nil)
           \/ (ret.figure = Nil /\ ret.err # Nil)
        /\ (ret.figure # Nil => WellFormed(ret.figure))
        /\ (file.readErr \/ file.parseErr \/ ~WellFormed(file.content)
              => ret.figure = Nil)

\* a readable, well-formed YAML file whose figure fails validation
C5_Witness ==
    /\ call.op = "LoadFigureFromYAML"
    /\ ~file.readErr /\ ~file.parseErr
    /\ Len(file.content.Pontos) >= 1
    /\ ~WellFormed(file.content)
    /\ ret.figure = Nil
    /\ ret.err.msg = "figura invalida"

\* C6: a decoded camera distance of 0 replaces the whole camera by observer
\* (0,0,0), distance 10, width 12.8, height 9.6, whatever else the file gave;
\* a non-zero distance keeps the decoded camera as it is.
C6_DefaultCameraWhole ==
    (call.op = "LoadFigureFromYAML" /\ ret.err = Nil) =>
        ret.figure.Camera =
            IF file.content.Camera.Distance = Int2F(0)
            THEN [Observer |-> [X |-> Int2F(0), Y |-> Int2F(0), Z |-> Int2F(0), Nome |-> ""],
                  Distance |-> Int2F(10), Width |-> Rat(128, 10), Height |-> Rat(96, 10)]
            ELSE file.content.Camera

\* distancia 0 in a file that gives observer, largura and altura
C6_Witness ==
    /\ call.op = "LoadFigureFromYAML"
    /\ ret.err = Nil
    /\ file.content.Camera.Distance = Int2F(0)
    /\ file.content.Camera.Width # Int2F(0)
    /\ file.content.Camera.Observer # Observer0
    /\ ret.figure.Camera.Width = Rat(128, 10)

\* C7: every figure LoadFigureFromYAML returns has a camera with distance,
\* width and height all strictly positive.
C7_LoadedCameraPositive ==
    (call.op = "LoadFigureFromYAML" /\ ret.figure # Nil) =>
        /\ FLt(FZero, ret.figure.Camera.Distance)
        /\ FLt(FZero, ret.figure.Camera.Width)
        /\ FLt(FZero, ret.figure.Camera.Height)

-----------------------------------------------------------------------------
(* Projector: ProjectPoint called on a renderer whose camera SetCamera sets *)

\* points on, before, at and behind the clamp depth, left and right, above and
\* below the observer
ProjectXs == {Int2F(-1), Int2F(0), Int2F(2)}
ProjectYs == {Int2F(-1), Int2F(0), Rat(1, 20), Tenths(1), Tenths(2), Tenths(11), Int2F(5)}
ProjectZs == {Int2F(-1), Int2F(0), Int2F(1)}
ProjectPoints == {Point3D(x, y, z, "") : x \in ProjectXs, y \in ProjectYs, z \in ProjectZs}

\* cameras SetCamera accepts: it validates nothing
ProjectCameras ==
    {Camera(o, d, wh[1], wh[2]) :
        o \in {Observer0, Observer1},
        d \in {Int2F(0), Int2F(5), Int2F(10), Int2F(-5)},
        wh \in {<<Tenths(128), Tenths(96)>>, <<Int2F(4), Int2F(3)>>, <<FZero, FZero>>}}

\* surface sizes: the usual one and one with odd sides
ScreenSizes == {<<800, 600>>, <<201, 151>>}

InitProject ==
    /\ viewer = Nil
    /\ output = Nil
    /\ file = NoFile
    /\ figure = file.content
    /\ cfg = DefaultRenderConfig
    /\ \E wh \in ScreenSizes : renderer = New(wh[1], wh[2])
    /\ context = NewCtx
    /\ call = [op |-> "none"]
    /\ ret = Nil
    /\ pc = "run"

SetCameraCall(camera) ==
    /\ pc = "run"
    /\ renderer' = SetCamera(renderer, camera)
    /\ call' = [op |-> "SetCamera"]
    /\ ret' = Nil
    /\ UNCHANGED <<viewer, output, file, figure, cfg, context, pc>>

ProjectPointCall(p) ==
    /\ pc = "run"
    /\ call' = [op |-> "ProjectPoint", p |-> p]
    /\ ret' = ProjectPoint(renderer, p)
    /\ UNCHANGED <<viewer, output, file, figure, cfg, renderer, context, pc>>

NextProject ==
    \/ \E camera \in ProjectCameras : SetCameraCall(camera)
    \/ \E p \in ProjectPoints : ProjectPointCall(p)

SpecProject == InitProject /\ [][NextProject]_vars

-----------------------------------------------------------------------------
(* Projector claims *)

\* the observer-relative coordinates of the last projected point
RelX == FSub(call.p.X, renderer.camera.Observer.X)
RelHeight == FSub(call.p.Z, renderer.camera.Observer.Z)
RelDepth == FSub(call.p.Y, renderer.camera.Observer.Y)

\* the reference formula of the claim, for depth pz
Reference(px, py, pz, cam, width, height) ==
    [X |-> FAdd(Rat(width, 2),
                FMul(FDiv(FMul(px, cam.Distance), pz), FDiv(Int2F(width), cam.Width))),
     Y |-> FSub(Rat(height, 2),
                FMul(FDiv(FMul(py, cam.Distance), pz), FDiv(Int2F(height), cam.Height)))]

\* C8: ProjectPoint equals the reference formula for every point, camera and
\* screen size: px = X - obs.X, py = Z - obs.Z, pz = Y - obs.Y raised to 0.1
\* when it is <= 0.1, screenX = width/2 + (px*distance/pz)*(width/camera.Width),
\* screenY = height/2 - (py*distance/pz)*(height/camera.Height), with real halves.
C8_ProjectionFormula ==
    call.op = "ProjectPoint" =>
        ret = Reference(RelX, RelHeight,
                        IF FLeq(RelDepth, Rat(1, 10)) THEN Rat(1, 10) ELSE RelDepth,
                        renderer.camera, renderer.width, renderer.height)

\* an off-centre point in front of an observer away from the origin, on a
\* surface with odd sides
C8_Witness ==
    /\ call.op = "ProjectPoint"
    /\ renderer.width = 201
    /\ renderer.camera.Observer = Observer1
    /\ FLt(Rat(1, 10), RelDepth)
    /\ RelX # FZero /\ RelHeight # FZero
    /\ call.p.Y # call.p.Z
    /\ IsFinite(ret.X) /\ IsFinite(ret.Y)
    /\ ret.X # renderer.centerX /\ ret.Y # renderer.centerY

\* a camera whose viewing rectangle has an extent: the scale factors are finite
HasExtent(cam) == cam.Width # FZero /\ cam.Height # FZero

\* the projection of the point with the same px, py at observer-relative depth d
AtDepth(d) ==
    ProjectPoint(renderer, [call.p EXCEPT !.Y = FAdd(renderer.camera.Observer.Y, d)])

\* C9: a point at observer-relative depth <= 0.1 (zero, negative, or exactly
\* 0.1) is projected as the point with the same px, py at depth 0.1: the divisor
\* is never zero, the result is finite for a camera whose viewing rectangle has
\* an extent, and the offsets from the centre have the sign they have for the
\* point at depth 5 in front of the observer; a depth above 0.1 is used as it is.
C9_ClampNearObserver ==
    call.op = "ProjectPoint" =>
        /\ FLeq(RelDepth, Rat(1, 10)) =>
              /\ ret = AtDepth(Rat(1, 10))
              /\ clampPz(RelDepth) = Rat(1, 10)
              /\ HasExtent(renderer.camera) =>
                    /\ IsFinite(ret.X) /\ IsFinite(ret.Y)
                    /\ Sgn(FSub(ret.X, renderer.centerX).n)
                         = Sgn(FSub(AtDepth(Int2F(5)).X, renderer.centerX).n)
                    /\ Sgn(FSub(ret.Y, renderer.centerY).n)
                         = Sgn(FSub(AtDepth(Int2F(5)).Y, renderer.centerY).n)
        /\ FLt(Rat(1, 10), RelDepth) =>
              /\ clampPz(RelDepth) = RelDepth
              /\ (HasExtent(renderer.camera) /\ renderer.camera.Distance # FZero
                    /\ RelX # FZero) => ret.X # AtDepth(Rat(1, 10)).X

\* an off-centre point behind the observer, projected far out but finite
C9_Witness ==
    /\ call.op = "ProjectPoint"
    /\ FLt(RelDepth, FZero)
    /\ RelX # FZero /\ RelHeight # FZero
    /\ HasExtent(renderer.camera)
    /\ renderer.camera.Distance = Int2F(10)
    /\ IsFinite(ret.X) /\ IsFinite(ret.Y)
    /\ ret.X # renderer.centerX /\ ret.Y # renderer.centerY

\* the offset of a projected point from the screen centre
OffsetX(p2D) == FSub(p2D.X, renderer.centerX)
OffsetY(p2D) == FSub(p2D.Y, renderer.centerY)

FAbs(a) == Rat(Abs(a.n), a.d)

OffCentre(p2D) == OffsetX(p2D) # FZero \/ OffsetY(p2D) # FZero

\* q is strictly closer to the screen centre than p2D: no component of its
\* offset is larger, and one is smaller
Closer(q, p2D) ==
    /\ FLeq(FAbs(OffsetX(q)), FAbs(OffsetX(p2D)))
    /\ FLeq(FAbs(OffsetY(q)), FAbs(OffsetY(p2D)))
    /\ \/ FLt(FAbs(OffsetX(q)), FAbs(OffsetX(p2D)))
       \/ FLt(FAbs(OffsetY(q)), FAbs(OffsetY(p2D)))

\* the projection of the last point with the camera distance multiplied by k
WithDistanceTimes(k) ==
    ProjectPoint([renderer EXCEPT !.camera.Distance = FMul(k, @)], call.p)

\* C10: with everything else fixed, for a camera whose viewing rectangle has an
\* extent, the offset from the screen centre is proportional to the camera
\* distance (times k for k = 2, 3, 1/2); halving a positive distance moves an
\* off-centre point strictly closer to the centre; a point with px = py = 0 is
\* at the centre.
C10_LinearInDistance ==
    (call.op = "ProjectPoint" /\ HasExtent(renderer.camera)) =>
        /\ \A k \in {Int2F(2), Int2F(3), Rat(1, 2)} :
              /\ OffsetX(WithDistanceTimes(k)) = FMul(k, OffsetX(ret))
              /\ OffsetY(WithDistanceTimes(k)) = FMul(k, OffsetY(ret))
        /\ (FLt(FZero, renderer.camera.Distance) /\ OffCentre(ret)) =>
              Closer(WithDistanceTimes(Rat(1, 2)), ret)
        /\ (RelX = FZero /\ RelHeight = FZero) =>
              (ret.X = renderer.centerX /\ ret.Y = renderer.centerY)

\* distance 10: an off-centre point, which distance 5 brings closer to the centre
C10_Witness ==
    /\ call.op = "ProjectPoint"
    /\ HasExtent(renderer.camera)
    /\ renderer.camera.Distance = Int2F(10)
    /\ OffsetX(ret) # FZero /\ OffsetY(ret) # FZero
    /\ Closer(WithDistanceTimes(Rat(1, 2)), ret)

-----------------------------------------------------------------------------
(* Colour parser: parseColor and parseHexComponent on bounded texts *)

\* longest hex body of a colour text
MaxBody == 6

\* the characters of the bodies: three hex digits and a letter that is none
BodyChars == {"0", "8", "f", "g"}

Bodies == SeqsUpTo(BodyChars, MaxBody)

\* the names tried: those of namedColors, and "red"
Red == <<"r", "e", "d">>
ColorNames == DOMAIN namedColors \cup {Red}

\* no, one or two leading '#'
Prefixes == {<<>>, <<"#">>, <<"#", "#">>}

\* strings.ToUpper
ToUpper(s) ==
    [i \in 1..Len(s) |->
        LET k == IndexOf(LowerLetters, s[i])
        IN  IF k = 0 THEN s[i] ELSE UpperLetters[k]]

\* s with its first character in upper case
Capitalized(s) == IF s = <<>> THEN s ELSE ToUpper(<<Head(s)>>) \o Tail(s)

\* s surrounded by white space
Padded(s) == <<" ", "\t">> \o s \o <<"\n", " ">>

\* s as it is, under other letter cases, and with surrounding white space
Variants(s) == <<s, ToUpper(s), Capitalized(s), Padded(s), Padded(ToUpper(s))>>

\* the characters of the components: every hex digit in both cases, and two
\* characters that are none
ComponentChars ==
    {HexDigits[i] : i \in 1..16} \cup {"A", "B", "C", "D", "E", "F", "g", " "}

Components == {<<hi, lo>> : hi \in ComponentChars, lo \in ComponentChars}

\* the call about to run: parseColor on a text, or parseHexComponent on two
\* characters
InitColor ==
    /\ viewer = Nil
    /\ output = Nil
    /\ file = NoFile
    /\ figure = file.content
    /\ cfg = DefaultRenderConfig
    /\ renderer = New(800, 600)
    /\ context = NewCtx
    /\ \/ \E prefix \in Prefixes, body \in Bodies \cup ColorNames, k \in 1..5 :
              call = [op |-> "parseColor", value |-> Variants(prefix \o body)[k]]
       \/ \E component \in Components :
              call = [op |-> "parseHexComponent", component |-> component]
    /\ ret = Nil
    /\ pc = "run"

\* parseColor runs on its argument and returns
ParseColorCall ==
    /\ pc = "run"
    /\ call.op = "parseColor"
    /\ ret' = parseColor(call.value)
    /\ pc' = "done"
    /\ UNCHANGED <<viewer, output, file, figure, cfg, renderer, context, call>>

\* parseHexComponent runs on its argument and returns
ParseHexComponentCall ==
    /\ pc = "run"
    /\ call.op = "parseHexComponent"
    /\ ret' = parseHexComponent(call.component)
    /\ pc' = "done"
    /\ UNCHANGED <<viewer, output, file, figure, cfg, renderer, context, call>>

NextColor == ParseColorCall \/ ParseHexComponentCall

SpecColor == InitColor /\ [][NextColor]_vars

-----------------------------------------------------------------------------
(* Colour parser claims *)

\* the characters that are hex digits
HexChars ==
    {"0", "1", "2", "3", "4", "5", "6", "7", "8", "9",
     "a", "b", "c", "d", "e", "f", "A", "B", "C", "D", "E", "F"}

\* the text without its surrounding white space
Core(value) == TrimSpace(value)

\* the text is one of the colour names, in any letter case
IsColorName(value) == ToLower(Core(value)) \in DOMAIN namedColors

\* the core without one leading '#'
HexBody(value) ==
    IF Core(value) # <<>> /\ Head(Core(value)) = "#" THEN Tail(Core(value))
    ELSE Core(value)

IsHex(s) == \A i \in 1..Len(s) : s[i] \in HexChars

\* empty or blank, a body of a length other than 3 or 6, or a body with a
\* character that is no hex digit
Malformed(value) ==
    \/ Core(value) = <<>>
    \/ Len(HexBody(value)) \notin {3, 6}
    \/ ~IsHex(HexBody(value))

\* C12 as stated: parseColor returns an error together with the zero colour
\* (0,0,0), and does not panic, for every text that is empty or blank, or
\* whose body after one leading '#' has a length other than 3 or 6, or whose
\* body of length 3 or 6 has a character that is no hex digit.
C12_AnyMalformedRejected ==
    (call.op = "parseColor" /\ pc # "run" /\ Malformed(call.value)) =>
        /\ pc = "done"
        /\ ret.err # Nil
        /\ ret.color = ZeroColor

\* C12 amended: the same for every such text that is not one of the colour
\* names (these are looked up before the length is examined, and have 4, 5, 8
\* or 9 characters); no component parsed before the bad one is returned.
C12_MalformedColorRejected ==
    (call.op = "parseColor" /\ pc # "run"
        /\ Malformed(call.value) /\ ~IsColorName(call.value)) =>
        /\ pc = "done"
        /\ ret.err # Nil
        /\ ret.color = ZeroColor

\* a body of six characters whose first two components are hex and whose
\* last one is not
C12_Witness ==
    /\ call.op = "parseColor"
    /\ pc = "done"
    /\ Len(HexBody(call.value)) = 6
    /\ IsHex(SubSeq(HexBody(call.value), 1, 4))
    /\ SubSeq(HexBody(call.value), 1, 2) # <<"0", "0">>
    /\ ~IsHex(SubSeq(HexBody(call.value), 5, 6))
    /\ ret.err # Nil
    /\ ret.color = ZeroColor

\* what a caller tells apart in a result of parseColor: the colour, and
\* whether there is an error
Outcome(res) == [color |-> res.color, failed |-> res.err # Nil]

\* the two spellings of each grey
GreySpellings ==
    {<<<<"g", "r", "a", "y">>, <<"g", "r", "e", "y">>>>,
     <<<<"l", "i", "g", "h", "t", "g", "r", "a", "y">>,
       <<"l", "i", "g", "h", "t", "g", "r", "e", "y">>>>,
     <<<<"d", "a", "r", "k", "g", "r", "a", "y">>,
       <<"d", "a", "r", "k", "g", "r", "e", "y">>>>}

\* C13: the outcome of parseColor (the colour, or that there is an error) is
\* the same for a text, for the text in upper case, in lower case, with its
\* first letter capitalized, with white space around it and with its
\* surrounding white space removed, for colour names and hex texts alike; and
\* both spellings of a grey give the same colour without error.
C13_CaseAndSpaceInvariant ==
    (call.op = "parseColor" /\ pc = "done") =>
        /\ \A other \in {ToUpper(call.value), ToLower(call.value),
                         Capitalized(call.value), Padded(call.value),
                         Core(call.value)} :
              Outcome(parseColor(other)) = Outcome(ret)
        /\ \A pair \in GreySpellings :
              ToLower(Core(call.value)) \in {pair[1], pair[2]} =>
                  /\ ret.err = Nil
                  /\ ret = parseColor(pair[1])
                  /\ ret = parseColor(pair[2])

\* a grey in the British spelling, in upper case and with white space around
\* it, resolved to the colour of the American spelling
C13_Witness ==
    /\ call.op = "parseColor"
    /\ pc = "done"
    /\ call.value = Padded(<<"L", "I", "G", "H", "T", "G", "R", "E", "Y">>)
    /\ ret.err = Nil
    /\ ret.color = namedColors[<<"l", "i", "g", "h", "t", "g", "r", "a", "y">>]
    /\ ret.color # ZeroColor

\* a text of three characters with each character written twice in place
Doubled(s) == <<s[1], s[1], s[2], s[2], s[3], s[3]>>

\* C14: for every text s of hex digits, parseColor("#" + s) has the outcome of
\* parseColor(s), and when s has 3 or 6 digits both return the same colour
\* without error while "##" + s is an error (one '#' is stripped, not two);
\* and for s of 3 digits abc, parseColor(abc) equals parseColor(aabbcc).
C14_HashOptionalShortDoubled ==
    (call.op = "parseColor" /\ pc = "done" /\ IsHex(call.value)) =>
        /\ Outcome(parseColor(<<"#">> \o call.value)) = Outcome(ret)
        /\ Len(call.value) \in {3, 6} =>
              /\ ret.err = Nil
              /\ parseColor(<<"#">> \o call.value) = ret
              /\ parseColor(<<"#", "#">> \o call.value).err # Nil
        /\ Len(call.value) = 3 =>
              /\ parseColor(Doubled(call.value)) = ret
              /\ parseColor(<<"#">> \o Doubled(call.value)) = ret

\* a short body of three different digits, parsed to three different components
C14_Witness ==
    /\ call.op = "parseColor"
    /\ pc = "done"
    /\ IsHex(call.value)
    /\ Len(call.value) = 3
    /\ Cardinality({call.value[i] : i \in 1..3}) = 3
    /\ ret.err = Nil
    /\ Cardinality({ret.color.R, ret.color.G, ret.color.B}) = 3
    /\ parseColor(<<"#">> \o call.value) = ret

\* the two-digit hex form of the byte v
Hex2(v) == <<HexDigits[(v \div 16) + 1], HexDigits[(v % 16) + 1]>>

\* the byte a two-digit hex text of either case writes
ByteOf(component) == CHOOSE v \in 0..255 : Hex2(v) = ToLower(component)

\* a / b rounded to the nearest integer, for a >= 0 and b > 0
RoundDiv(a, b) == (2 * a + b) \div (2 * b)

\* round(v * 1000 / 255) / 1000
Normalized(v) == Rat(RoundDiv(v * 1000, 255), 1000)

\* a normalised component scaled back by 255 and rounded
ScaledBack(x) == RoundDiv(x.n * 255, x.d)

\* the component is the normalisation of the byte v
NormalizedByte(x, v) ==
    /\ x = Normalized(v)
    /\ FLeq(FZero, x) /\ FLeq(x, Int2F(1))
    /\ (v = 0 => x = FZero)
    /\ (v = 255 => x = Int2F(1))
    /\ ScaledBack(x) - v \in {-1, 0, 1}

\* C15: for every byte v in 0..255, parseHexComponent of its two-digit hex
\* form returns round(v*1000/255)/1000 without error, a value in [0,1] that is
\* 0 for 00 and 1 for ff and that, multiplied by 255 and rounded, is v within
\* plus or minus 1; and in a colour of six hex digits each of the three
\* components is that value of its own two digits.
C15_ComponentNormalized ==
    /\ (call.op = "parseHexComponent" /\ pc = "done" /\ IsHex(call.component)) =>
          /\ ret.err = Nil
          /\ NormalizedByte(ret.value, ByteOf(call.component))
    /\ (call.op = "parseColor" /\ pc = "done"
            /\ IsHex(call.value) /\ Len(call.value) = 6) =>
          /\ ret.err = Nil
          /\ NormalizedByte(ret.color.R, ByteOf(SubSeq(call.value, 1, 2)))
          /\ NormalizedByte(ret.color.G, ByteOf(SubSeq(call.value, 3, 4)))
          /\ NormalizedByte(ret.color.B, ByteOf(SubSeq(call.value, 5, 6)))

\* the byte 128, written "80": 128/255 = 0.50196..., returned as 0.502
C15_Witness ==
    /\ call.op = "parseHexComponent"
    /\ pc = "done"
    /\ call.component = <<"8", "0">>
    /\ ret.err = Nil
    /\ ret.value = Rat(502, 1000)
    /\ ScaledBack(ret.value) = 128

\* C16: parseColor accepts the colour names "white", "black" and "red": each
\* of them resolves to a colour without error.
C16_NamesAccepted ==
    (call.op = "parseColor" /\ pc = "done"
        /\ call.value \in {<<"w", "h", "i", "t", "e">>, <<"b", "l", "a", "c", "k">>, Red}) =>
        ret.err = Nil

-----------------------------------------------------------------------------
(* Visual configuration: ConfigFromFigure on a figure and its settings *)

\* the colour texts of the settings: none, a name, a short hex form, a name
\* that is no colour, and a blank text
SettingTexts ==
    {<<>>, <<"b", "l", "a", "c", "k">>, <<"#", "0", "8", "f">>, Red, <<" ">>}

\* the line widths of the settings: not set (0), negative, and two positive ones
SettingWidths == {FZero, Int2F(-1), Rat(1, 2), Rat(5, 2)}

SettingFlags == {Nil, Ptr(TRUE), Ptr(FALSE)}

AllRenderSettings ==
    {RenderSettings(bg, ln, vx, w, sv, sl) :
        bg \in SettingTexts, ln \in SettingTexts, vx \in SettingTexts,
        w \in SettingWidths, sv \in SettingFlags, sl \in SettingFlags}

\* the figures handed to ConfigFromFigure: nil, one without settings, and one
\* with each of the settings
ConfigFigures ==
    {Nil, Figure(<<PontoA>>, <<Line(0, 0)>>, DefaultCamera)}
    \cup {[Figure(<<PontoA>>, <<Line(0, 0)>>, DefaultCamera) EXCEPT !.Render = st] :
            st \in AllRenderSettings}

InitConfig ==
    /\ viewer = Nil
    /\ output = Nil
    /\ file = NoFile
    /\ figure \in ConfigFigures
    /\ cfg = DefaultRenderConfig
    /\ renderer = New(800, 600)
    /\ context = NewCtx
    /\ call = [op |-> "none"]
    /\ ret = Nil
    /\ pc = "run"

\* ConfigFromFigure(figure) runs and returns
ConfigFromFigureCall ==
    /\ pc = "run"
    /\ call' = [op |-> "ConfigFromFigure"]
    /\ ret' = ConfigFromFigure(figure)
    /\ pc' = "done"
    /\ UNCHANGED <<viewer, output, file, figure, cfg, renderer, context>>

NextConfig == ConfigFromFigureCall

SpecConfig == InitConfig /\ [][NextConfig]_vars

-----------------------------------------------------------------------------
(* Visual configuration claims *)

ConfigReturned == call.op = "ConfigFromFigure" /\ pc = "done"

NoSettings == figure = Nil \/ figure.Render = Nil

\* the colour a setting text asks for: the default when it is empty
ColorSetting(text, default) == IF text = <<>> THEN default ELSE parseColor(text).color

\* C17: when ConfigFromFigure succeeds each field of the result depends on
\* its own setting only: a colour is the parsed text when the text is not
\* empty and the default otherwise; the line width is the setting when it is
\* > 0 and the default 1.0 otherwise; a flag is the value pointed to when the
\* pointer is not nil and false otherwise; and a nil figure or nil Render
\* gives DefaultRenderConfig() without error.
C17_FieldsOverriddenIndependently ==
    ConfigReturned =>
        /\ NoSettings => (ret.err = Nil /\ ret.config = DefaultRenderConfig)
        /\ (ret.err = Nil /\ ~NoSettings) =>
              LET st == figure.Render
                  d == DefaultRenderConfig
              IN  /\ ret.config.Background = ColorSetting(st.Background, d.Background)
                  /\ ret.config.LineColor = ColorSetting(st.LineColor, d.LineColor)
                  /\ ret.config.VertexColor = ColorSetting(st.VertexColor, d.VertexColor)
                  /\ ret.config.LineWidth
                       = IF FLt(FZero, st.LineWidth) THEN st.LineWidth ELSE Int2F(1)
                  /\ ret.config.ShowVertices
                       = IF st.ShowVertices # Nil THEN st.ShowVertices.val ELSE FALSE
                  /\ ret.config.ShowLabels
                       = IF st.ShowLabels # Nil THEN st.ShowLabels.val ELSE FALSE

\* settings with a line colour, a zero line width and show-labels only: the
\* other three fields are left at their defaults
C17_Witness ==
    /\ ConfigReturned
    /\ ~NoSettings
    /\ ret.err = Nil
    /\ figure.Render.Background = <<>> /\ figure.Render.VertexColor = <<>>
    /\ figure.Render.LineWidth = FZero
    /\ figure.Render.ShowVertices = Nil
    /\ ret.config.LineColor = RGB(FZero, Rat(533, 1000), Int2F(1))
    /\ ret.config.ShowLabels
    /\ ret.config = [DefaultRenderConfig EXCEPT !.LineColor = ret.config.LineColor,
                                                !.ShowLabels = TRUE]

\* C18: when ConfigFromFigure fails on an invalid colour, the RenderConfig
\* returned beside the error carries no override: it is DefaultRenderConfig(),
\* whichever colour is the invalid one and whatever valid settings precede it.
C18_FailedConfigIsDefault ==
    (ConfigReturned /\ ret.err # Nil) => ret.config = DefaultRenderConfig

-----------------------------------------------------------------------------
(* Draw pipeline: a renderer, the figure and the configuration its caller holds *)

\* the camera of the figures rendered
FigureCamera == Camera(Observer0, Int2F(5), Tenths(128), Tenths(96))

\* the vertices rendered: named and unnamed ones in turn, either one first
RenderPontoLists ==
    {[i \in 1..k |-> IF i % 2 = first THEN PontoA ELSE PontoB] :
        k \in 0..MaxPontos, first \in {0, 1}}

\* the edges rendered: those of a two-point figure, and edges with a negative
\* index, an index past the points, or one of each, at either end
RenderLinhas ==
    {Line(a, b) : a, b \in {0, 1}}
    \cup {Line(-1, 0), Line(0, -1), Line(2, 0), Line(0, 2), Line(-1, 2), Line(2, -1)}

RenderLinhaLists == SeqsUpTo(RenderLinhas, MaxLinhas)

RenderFigures ==
    {Figure(ps, ls, FigureCamera) : ps \in RenderPontoLists, ls \in RenderLinhaLists}

\* a configuration with no default colour or width, under every pair of flags
RenderConfigs ==
    {[Background |-> RGB(Tenths(9), Tenths(9), Tenths(9)),
      LineColor |-> RGB(Int2F(0), Int2F(0), Int2F(1)),
      LineWidth |-> Int2F(2),
      VertexColor |-> RGB(Tenths(8), Int2F(0), Int2F(0)),
      ShowVertices |-> sv, ShowLabels |-> sl] : sv \in BOOLEAN, sl \in BOOLEAN}

InitRender ==
    /\ viewer = Nil
    /\ output = Nil
    /\ file = NoFile
    /\ figure \in RenderFigures
    /\ cfg \in RenderConfigs
    /\ renderer = New(800, 600)
    /\ context = NewCtx
    /\ call = [op |-> "none"]
    /\ ret = Nil
    /\ pc = "run"

\* the figures the caller passes: the one it holds, or that one without points
PassedFigures == {figure, [figure EXCEPT !.Pontos = <<>>]}

\* r.RenderFigureWithConfig(f, cfg); a panic ends the process
RenderFigureWithConfigCall(f) ==
    /\ pc = "run"
    /\ LET res == RenderFigureWithConfig(renderer, context, f, cfg)
       IN  /\ context' = res.context
           /\ pc' = IF res.panic THEN "panicked" ELSE "run"
           /\ ret' = IF res.panic THEN Nil ELSE [err |-> res.err]
    /\ call' = [op |-> "RenderFigureWithConfig", figure |-> f]
    /\ UNCHANGED <<viewer, output, file, figure, cfg, renderer>>

NextRender ==
    \/ SetCameraCall(figure.Camera)
    \/ \E f \in PassedFigures : RenderFigureWithConfigCall(f)

SpecRender == InitRender /\ [][NextRender]_vars

-----------------------------------------------------------------------------
(* Session: one renderer used again and again by a caller that renders,   *)
(* projects, adds grids, and turns to other figures and configurations    *)

\* the longest list of draw operations on which AddGrid is still called
MaxDrawn == 10

\* render settings carried by a figure of the session
SessionSettings ==
    RenderSettings(<<"r", "e", "d">>, <<>>, <<>>, Int2F(3), Ptr(TRUE), Nil)

\* the figures of the session: a segment with a named end, a point with an
\* edge into itself and an edge past the points, and a figure with no points
SessionFigures ==
    {[Figure(<<PontoA, PontoB>>, <<Line(0, 1)>>, FigureCamera)
          EXCEPT !.Render = SessionSettings],
     Figure(<<PontoB>>, <<Line(0, 0), Line(0, 2)>>, DefaultCamera),
     Figure(<<>>, <<>>, FigureCamera)}

SessionConfigs ==
    {DefaultRenderConfig,
     [Background |-> RGB(Tenths(9), Tenths(9), Tenths(9)),
      LineColor |-> RGB(Int2F(0), Int2F(0), Int2F(1)),
      LineWidth |-> Int2F(2),
      VertexColor |-> RGB(Tenths(8), Int2F(0), Int2F(0)),
      ShowVertices |-> TRUE, ShowLabels |-> TRUE]}

SessionCameras == {FigureCamera, DefaultCamera}

\* the renderer of TestAddGrid: New(200, 150)
InitSession ==
    /\ viewer = Nil
    /\ output = Nil
    /\ file = NoFile
    /\ figure \in SessionFigures
    /\ cfg \in SessionConfigs
    /\ renderer = New(200, 150)
    /\ context = NewCtx
    /\ call = [op |-> "none"]
    /\ ret = Nil
    /\ pc = "run"

\* the caller turns to another figure and configuration
TakeFigure(f, c) ==
    /\ pc = "run"
    /\ figure' = f
    /\ cfg' = c
    /\ call' = [op |-> "TakeFigure"]
    /\ ret' = Nil
    /\ UNCHANGED <<viewer, output, file, renderer, context, pc>>

\* r.AddGrid()
AddGridCall ==
    /\ pc = "run"
    /\ Len(context.surface.ops) < MaxDrawn
    /\ context' = AddGrid(renderer, context)
    /\ call' = [op |-> "AddGrid", before |-> context]
    /\ ret' = Nil
    /\ UNCHANGED <<viewer, output, file, figure, cfg, renderer, pc>>

\* mutant: the render stores the renderer's camera into the figure it is given
RenderFigureWithConfigAgain_StoresCamera ==
    /\ pc = "run"
    /\ LET res == RenderFigureWithConfig(renderer, context, figure, cfg)
       IN  /\ context' = res.context
           /\ pc' = IF res.panic THEN "panicked" ELSE "run"
           /\ ret' = IF res.panic THEN Nil ELSE [err |-> res.err]
    /\ call' = [op |-> "RenderFigureWithConfig", figure |-> figure, before |-> context]
    /\ figure' = [figure EXCEPT !.Camera = renderer.camera]
    /\ UNCHANGED <<viewer, output, file, cfg, renderer>>

\* r.RenderFigureWithConfig(figure, cfg) on the renderer as the session left
\* it; the call remembers the context it found
RenderFigureWithConfigAgain ==
    /\ pc = "run"
    /\ LET res == RenderFigureWithConfig(renderer, context, figure, cfg)
       IN  /\ context' = res.context
           /\ pc' = IF res.panic THEN "panicked" ELSE "run"
           /\ ret' = IF res.panic THEN Nil ELSE [err |-> res.err]
    /\ call' = [op |-> "RenderFigureWithConfig", figure |-> figure, before |-> context]
    /\ UNCHANGED <<viewer, output, file, figure, cfg, renderer>>

NextSession ==
    \/ \E f \in SessionFigures, c \in SessionConfigs : TakeFigure(f, c)
    \/ \E camera \in SessionCameras : SetCameraCall(camera)
    \/ \E i \in 1..Len(figure.Pontos) : ProjectPointCall(figure.Pontos[i])
    \/ RenderFigureWithConfigAgain
    \/ AddGridCall

SpecSession == InitSession /\ [][NextSession]_vars

-----------------------------------------------------------------------------
(* Generate command: generatePNG, from the file to the image written *)

\* the render settings of the files: one with a canvas size and valid colours,
\* and one for each colour setting holding a text that is no colour
GenSettings ==
    {[RenderSettings(<<"b", "l", "a", "c", "k">>, <<"#", "0", "8", "f">>, <<>>,
                     Int2F(2), Ptr(TRUE), Ptr(TRUE))
          EXCEPT !.CanvasWidth = 200, !.CanvasHeight = 150],
     RenderSettings(Red, <<>>, <<>>, FZero, Nil, Nil),
     RenderSettings(<<>>, Red, <<>>, FZero, Nil, Nil),
     RenderSettings(<<"#", "0", "8", "f">>, <<>>, <<" ">>, FZero, Ptr(TRUE), Nil)}

\* the edge lists of the files: none, valid ones, one past the points, a
\* negative one
GenLinhas ==
    {<<>>, <<Line(0, 0)>>, <<Line(0, 1), Line(1, 0)>>, <<Line(0, 2)>>, <<Line(-1, 0)>>}

GenContents ==
    {[Figure(ps, ls, cam) EXCEPT !.Render = st] :
        ps \in LoaderPontos, ls \in GenLinhas, cam \in {ZeroCamera, FigureCamera},
        st \in {Nil} \cup GenSettings}

GenFiles ==
    {[readErr |-> FALSE, parseErr |-> FALSE, content |-> c] : c \in GenContents}
    \cup {[readErr |-> re, parseErr |-> ~re,
           content |-> Figure(<<PontoA>>, <<Line(0, 0)>>, FigureCamera)] :
            re \in BOOLEAN}

\* generatePNG(yamlFile) is entered: no figure, no renderer yet, no image
\* written
InitGenerate ==
    /\ viewer = Nil
    /\ output = Nil
    /\ file \in GenFiles
    /\ figure = Nil
    /\ cfg = Nil
    /\ renderer = Nil
    /\ context = Nil
    /\ call = [op |-> "generatePNG", steps |-> <<>>]
    /\ ret = Nil
    /\ pc = "load"

\* figura, err := core.LoadFigureFromYAML(yamlFile); log.Fatalf on an error
GenLoad ==
    /\ pc = "load"
    /\ LET res == LoadFigureFromYAML(file)
       IN  /\ ret' = [err |-> res.err]
           /\ figure' = res.figure
           /\ pc' = IF res.err # Nil THEN "fatal" ELSE "config"
    /\ call' = [call EXCEPT !.steps = Append(@, "LoadFigureFromYAML")]
    /\ UNCHANGED <<viewer, output, file, cfg, renderer, context>>

\* mutant: as the viewer does, a colour error is reported and the default
\* configuration is used
GenConfig_DefaultOnError ==
    /\ pc = "config"
    /\ LET res == ConfigFromFigure(figure)
       IN  /\ ret' = [err |-> res.err]
           /\ cfg' = IF res.err # Nil THEN DefaultRenderConfig ELSE res.config
           /\ pc' = "new"
    /\ call' = [call EXCEPT !.steps = Append(@, "ConfigFromFigure")]
    /\ UNCHANGED <<viewer, output, file, figure, renderer, context>>

\* renderCfg, err := renderer.ConfigFromFigure(figura); log.Fatalf on an error
GenConfig ==
    /\ pc = "config"
    /\ LET res == ConfigFromFigure(figure)
       IN  /\ ret' = [err |-> res.err]
           /\ cfg' = res.config
           /\ pc' = IF res.err # Nil THEN "fatal" ELSE "new"
    /\ call' = [call EXCEPT !.steps = Append(@, "ConfigFromFigure")]
    /\ UNCHANGED <<viewer, output, file, figure, renderer, context>>

\* the canvas size: 800 x 600 unless the render settings give a positive one
canvasSize(f) ==
    [width |-> IF f.Render # Nil /\ f.Render.CanvasWidth > 0
               THEN f.Render.CanvasWidth ELSE 800,
     height |-> IF f.Render # Nil /\ f.Render.CanvasHeight > 0
                THEN f.Render.CanvasHeight ELSE 600]

\* r := renderer.New(width, height); r.SetCamera(figura.Camera)
GenNew ==
    /\ pc = "new"
    /\ renderer' = SetCamera(New(canvasSize(figure).width, canvasSize(figure).height),
                             figure.Camera)
    /\ context' = NewCtx
    /\ ret' = Nil
    /\ pc' = "render"
    /\ call' = [call EXCEPT !.steps = Append(@, "New")]
    /\ UNCHANGED <<viewer, output, file, figure, cfg>>

\* err = r.RenderFigureWithConfig(figura, renderCfg); log.Fatalf on an error
GenRender ==
    /\ pc = "render"
    /\ LET res == RenderFigureWithConfig(renderer, context, figure, cfg)
       IN  /\ context' = res.context
           /\ ret' = IF res.panic THEN Nil ELSE [err |-> res.err]
           /\ pc' = IF res.panic THEN "panicked"
                    ELSE IF res.err # Nil THEN "fatal" ELSE "save"
    /\ call' = [call EXCEPT !.steps = Append(@, "RenderFigureWithConfig")]
    /\ UNCHANGED <<viewer, output, file, figure, cfg, renderer>>

\* err = r.SaveImage(outputFile): the image is written, or the write fails
\* (log.Fatalf) leaving no file or part of one
GenSave ==
    /\ pc = "save"
    /\ \/ /\ output' = [image |-> context.surface, partial |-> FALSE]
          /\ ret' = [err |-> Nil]
          /\ pc' = "exit"
       \/ /\ output' \in {output, [image |-> Nil, partial |-> TRUE]}
          /\ ret' = [err |-> [msg |-> "SavePNG"]]
          /\ pc' = "fatal"
    /\ call' = [call EXCEPT !.steps = Append(@, "SaveImage")]
    /\ UNCHANGED <<viewer, file, figure, cfg, renderer, context>>

NextGenerate ==
    \/ GenLoad
    \/ GenConfig
    \/ GenNew
    \/ GenRender
    \/ GenSave

SpecGenerate == InitGenerate /\ [][NextGenerate]_vars

-----------------------------------------------------------------------------
(* Viewer: internal/viewer/gui.go.  The variable viewer holds the fields   *)
(* of the GUI struct; renderer and context are the renderer that the last  *)
(* renderFigure created.  The status label is modelled by the fixed part   *)
(* of its text.                                                            *)

DecDigits == <<"0", "1", "2", "3", "4", "5", "6", "7", "8", "9">>

\* the decimal digits of a natural number
RECURSIVE decimalText(_)
decimalText(k) ==
    IF k < 10 THEN <<DecDigits[k + 1]>>
    ELSE decimalText(k \div 10) \o <<DecDigits[(k % 10) + 1]>>

\* the number of tenths nearest to a finite value >= 0, a tie going to the even
\* one: the rounding of the exact value.  A float64 holds a tie exactly only
\* when the value is an odd number of quarters; the cameras modelled have no
\* other value ending in 5 hundredths
roundTenths(a) ==
    LET q == (10 * a.n) \div a.d
        rem == 10 * a.n - q * a.d
    IN  IF 2 * rem < a.d THEN q
        ELSE IF 2 * rem > a.d THEN q + 1
        ELSE IF q % 2 = 0 THEN q ELSE q + 1

\* fmt.Sprintf("%.1f", x)
Sprintf1f(x) ==
    IF x.d = 0
    THEN IF x.n > 0 THEN <<"+", "I", "n", "f">>
         ELSE IF x.n < 0 THEN <<"-", "I", "n", "f">> ELSE <<"N", "a", "N">>
    ELSE LET t == roundTenths(Rat(Abs(x.n), x.d))
         IN  (IF x.n < 0 THEN <<"-">> ELSE <<>>)
             \o decimalText(t \div 10) \o <<".">> \o <<DecDigits[(t % 10) + 1]>>

ErrParseFloat(s) == [msg |-> "strconv.ParseFloat: invalid syntax", value |-> s]

\* the number written by decimal digits
RECURSIVE decimalValue(_)
decimalValue(s) ==
    IF s = <<>> THEN 0
    ELSE 10 * decimalValue(SubSeq(s, 1, Len(s) - 1)) + (IndexOf(DecDigits, s[Len(s)]) - 1)

RECURSIVE Pow10(_)
Pow10(k) == IF k = 0 THEN 1 ELSE 10 * Pow10(k - 1)

\* the digits and the point of a decimal text without its sign: digits, at
\* most one point, at least one digit
parseDecimal(s, body, negative) ==
    LET dot == IndexOf(body, ".")
        whole == IF dot = 0 THEN body ELSE SubSeq(body, 1, dot - 1)
        frac == IF dot = 0 THEN <<>> ELSE SubSeq(body, dot + 1, Len(body))
        digits == whole \o frac
    IN  IF digits = <<>> \/ \E i \in 1..Len(digits) : IndexOf(DecDigits, digits[i]) = 0
        THEN [val |-> FZero, err |-> ErrParseFloat(s)]
        ELSE [val |-> Rat((IF negative THEN -1 ELSE 1) * decimalValue(digits),
                          Pow10(Len(frac))),
              err |-> Nil]

\* strconv.ParseFloat(s, 64) on texts of a sign, decimal digits and a point,
\* on the infinities and NaN, and on texts with a character that no number
\* has; exponents, hexadecimal forms and underscores are not modelled
ParseFloat(s) ==
    LET signed == s # <<>> /\ s[1] \in {"+", "-"}
        negative == s # <<>> /\ s[1] = "-"
        body == IF signed THEN Tail(s) ELSE s
    IN  IF ToLower(body) \in {<<"i", "n", "f">>, <<"i", "n", "f", "i", "n", "i", "t", "y">>}
        THEN [val |-> Rat(IF negative THEN -1 ELSE 1, 0), err |-> Nil]
        ELSE IF ToLower(s) = <<"n", "a", "n">>
        THEN [val |-> Rat(0, 0), err |-> Nil]
        ELSE parseDecimal(s, body, negative)

\* image.NewRGBA(image.Rect(0, 0, w, h))
NewRGBA(w, h) == [width |-> w, height |-> h, surface |-> [fill |-> Nil, ops |-> <<>>]]

\* the GUI after setupUI, before the first loadFigure
NewGUI ==
    [figura |-> Nil, renderCfg |-> DefaultRenderConfig,
     canvasWidth |-> 800, canvasHeight |-> 600,
     camXEntry |-> <<"1">>, camYEntry |-> <<"1">>, camZEntry |-> <<"0">>,
     distEntry |-> <<"4">>,
     image |-> NewRGBA(800, 600), status |-> "Carregando..."]

\* updateCameraControls on a GUI with a figure
updateCameraControls(v) ==
    IF v.figura = Nil THEN v
    ELSE [v EXCEPT !.camXEntry = Sprintf1f(v.figura.Camera.Observer.X),
                   !.camYEntry = Sprintf1f(v.figura.Camera.Observer.Y),
                   !.camZEntry = Sprintf1f(v.figura.Camera.Observer.Z),
                   !.distEntry = Sprintf1f(v.figura.Camera.Distance)]

\* one control read: the parsed value, or the current one when the text is no
\* number
controlValue(text, current) ==
    IF ParseFloat(text).err = Nil THEN ParseFloat(text).val ELSE current

getCameraFromControls(v) ==
    [v.figura.Camera EXCEPT
        !.Observer.X = controlValue(v.camXEntry, @),
        !.Observer.Y = controlValue(v.camYEntry, @),
        !.Observer.Z = controlValue(v.camZEntry, @),
        !.Distance = controlValue(v.distEntry, @)]

\* the image of a renderer: its size and what its surface holds
GetImage(r, ctx) == [width |-> r.width, height |-> r.height, surface |-> ctx.surface]

\* the end of renderFigure: the status of an error, or the image and the
\* status of a render
showRender(v, r, res) ==
    [viewer |-> IF res.err # Nil THEN [v EXCEPT !.status = "Erro na renderizacao"]
                ELSE [v EXCEPT !.image = GetImage(r, res.context),
                               !.status = "Renderizado!"],
     renderer |-> r, context |-> res.context, panic |-> res.panic]

\* renderFigure once the camera of the controls is stored in the figure
renderStored(v) ==
    showRender(v, SetCamera(New(v.canvasWidth, v.canvasHeight), v.figura.Camera),
               RenderFigureWithConfig(
                   SetCamera(New(v.canvasWidth, v.canvasHeight), v.figura.Camera),
                   NewCtx, v.figura, v.renderCfg))

\* renderFigure: the GUI it leaves and the renderer it created (Nil: none)
renderFigure(v) ==
    IF v.figura = Nil
    THEN [viewer |-> v, renderer |-> Nil, context |-> Nil, panic |-> FALSE]
    ELSE renderStored([v EXCEPT !.figura.Camera = getCameraFromControls(v)])

\* the render configuration of loadFigure: the default one on an error
configOrDefault(conf) == IF conf.err # Nil THEN DefaultRenderConfig ELSE conf.config

\* mutant: the canvas keeps its size where the figure gives none
resized_NoReset(v, figura) ==
    [v EXCEPT !.figura = figura,
              !.canvasWidth = IF figura.Render # Nil /\ figura.Render.CanvasWidth > 0
                              THEN figura.Render.CanvasWidth ELSE @,
              !.canvasHeight = IF figura.Render # Nil /\ figura.Render.CanvasHeight > 0
                               THEN figura.Render.CanvasHeight ELSE @,
              !.image = NewRGBA(canvasSize(figura).width, canvasSize(figura).height)]

\* loadFigure after a load without error: the figure, the canvas size and a
\* blank image
resized(v, figura) ==
    [v EXCEPT !.figura = figura,
              !.canvasWidth = canvasSize(figura).width,
              !.canvasHeight = canvasSize(figura).height,
              !.image = NewRGBA(canvasSize(figura).width, canvasSize(figura).height)]

\* the last statement of loadFigure
setFigureStatus(res) == [res EXCEPT !.viewer.status = "Figura"]

\* loadFigure: the GUI it leaves, the renderer its render created, and the
\* error of the load
loadFigure(v, fl) ==
    IF LoadFigureFromYAML(fl).err # Nil
    THEN [viewer |-> [v EXCEPT !.status = "Erro"], renderer |-> Nil, context |-> Nil,
          panic |-> FALSE]
    ELSE setFigureStatus(renderFigure(updateCameraControls(
             [resized(v, LoadFigureFromYAML(fl).figure) EXCEPT
                 !.renderCfg = configOrDefault(
                                   ConfigFromFigure(LoadFigureFromYAML(fl).figure))])))

\* the files of the viewer: a figure with a camera of whole numbers and no
\* settings, one with an observer at a quarter, a canvas size and colours, one
\* without a camera, with a canvas width and a text that is no colour, a figure
\* with an edge past its points, and an unreadable and a malformed file
ViewerFiles ==
    {[readErr |-> FALSE, parseErr |-> FALSE,
      content |-> Figure(<<PontoA, PontoB>>, <<Line(0, 1)>>, FigureCamera)],
     [readErr |-> FALSE, parseErr |-> FALSE,
      content |->
          [Figure(<<PontoA, PontoB>>, <<Line(0, 1)>>,
                  Camera(Point3D(Rat(1, 4), Int2F(1), Int2F(0), ""),
                         Rat(5, 2), Tenths(128), Tenths(96)))
              EXCEPT !.Render =
                  [RenderSettings(<<"b", "l", "a", "c", "k">>, <<"#", "0", "8", "f">>,
                                  <<>>, Int2F(2), Ptr(TRUE), Ptr(TRUE))
                      EXCEPT !.CanvasWidth = 200, !.CanvasHeight = 150]]],
     [readErr |-> FALSE, parseErr |-> FALSE,
      content |->
          [Figure(<<PontoA>>, <<Line(0, 0)>>, ZeroCamera)
              EXCEPT !.Render =
                  [RenderSettings(Red, <<>>, <<>>, FZero, Nil, Nil)
                      EXCEPT !.CanvasWidth = 400]]],
     [readErr |-> FALSE, parseErr |-> FALSE,
      content |-> Figure(<<PontoA>>, <<Line(0, 1)>>, FigureCamera)],
     [readErr |-> TRUE, parseErr |-> FALSE,
      content |-> Figure(<<>>, <<>>, ZeroCamera)],
     [readErr |-> FALSE, parseErr |-> TRUE,
      content |-> Figure(<<>>, <<>>, ZeroCamera)]}

\* the texts typed into the controls: a number with a decimal as observer X, a
\* text that is no number as observer Y, zero and a negative number as distance
ControlEdits ==
    {<<"camXEntry", <<"2", ".", "5">>>>, <<"camYEntry", <<"x">>>>,
     <<"distEntry", <<"0">>>>, <<"distEntry", <<"-", "2">>>>}

\* NewGUI(filename) after setupUI: loadFigure is still to run
InitViewer ==
    /\ viewer = NewGUI
    /\ output = Nil
    /\ file \in ViewerFiles
    /\ figure = Nil
    /\ cfg = Nil
    /\ renderer = Nil
    /\ context = Nil
    /\ call = [op |-> "NewGUI"]
    /\ ret = Nil
    /\ pc = "new"

\* what a handler leaves: the GUI, and the renderer of its render if it made one
Handled(res) ==
    /\ viewer' = res.viewer
    /\ renderer' = IF res.renderer = Nil THEN renderer ELSE res.renderer
    /\ context' = IF res.renderer = Nil THEN context ELSE res.context
    /\ pc' = IF res.panic THEN "panicked" ELSE "run"

\* v.loadFigure(): the call at the end of NewGUI, and the button Recarregar
LoadFigureClick ==
    /\ pc \in {"new", "run"}
    /\ Handled(loadFigure(viewer, file))
    /\ call' = [op |-> "loadFigure"]
    /\ ret' = [err |-> LoadFigureFromYAML(file).err]
    /\ UNCHANGED <<output, file, figure, cfg>>

\* v.renderFigure(): the button Renderizar
RenderFigureClick ==
    /\ pc = "run"
    /\ Handled(renderFigure(viewer))
    /\ call' = [op |-> "renderFigure"]
    /\ ret' = Nil
    /\ UNCHANGED <<output, file, figure, cfg>>

\* the surface savePNG writes: a render of the stored figure on a renderer of
\* its own, its error ignored
savePNG(v) ==
    RenderFigureWithConfig(SetCamera(New(v.canvasWidth, v.canvasHeight), v.figura.Camera),
                           NewCtx, v.figura, v.renderCfg).context.surface

\* v.savePNG(): the button Salvar PNG; the image is written, or the write fails
\* leaving no file or part of one
SavePNGClick ==
    /\ pc = "run"
    /\ IF viewer.figura = Nil
       THEN UNCHANGED output /\ ret' = Nil
       ELSE \/ /\ output' = [image |-> savePNG(viewer), partial |-> FALSE]
               /\ ret' = [err |-> Nil]
            \/ /\ output' \in {output, [image |-> Nil, partial |-> TRUE]}
               /\ ret' = [err |-> [msg |-> "SavePNG"]]
    /\ call' = [op |-> "savePNG"]
    /\ UNCHANGED <<viewer, file, figure, cfg, renderer, context, pc>>

\* the user types a text into one of the camera controls
EditControl(control, text) ==
    /\ pc = "run"
    /\ viewer' = [viewer EXCEPT ![control] = text]
    /\ call' = [op |-> "edit", control |-> control]
    /\ ret' = Nil
    /\ UNCHANGED <<output, file, figure, cfg, renderer, context, pc>>

\* the file is replaced on disk between two loads
FileChanges(fl) ==
    /\ pc = "run"
    /\ file' = fl
    /\ call' = [op |-> "file"]
    /\ ret' = Nil
    /\ UNCHANGED <<viewer, output, figure, cfg, renderer, context, pc>>

NextViewer ==
    \/ LoadFigureClick
    \/ RenderFigureClick
    \/ SavePNGClick
    \/ \E edit \in ControlEdits : EditControl(edit[1], edit[2])
    \/ \E fl \in ViewerFiles : FileChanges(fl)

SpecViewer == InitViewer /\ [][NextViewer]_vars

-----------------------------------------------------------------------------
(* Draw pipeline claims *)

InRange(f, linha) ==
    /\ linha.P1 \in 0..(Len(f.Pontos) - 1)
    /\ linha.P2 \in 0..(Len(f.Pontos) - 1)

\* the edges of f with both indices in range, in list order
RECURSIVE ValidLinhas(_, _)
ValidLinhas(f, i) ==
    IF i > Len(f.Linhas) THEN <<>>
    ELSE IF InRange(f, f.Linhas[i]) THEN <<f.Linhas[i]>> \o ValidLinhas(f, i + 1)
    ELSE ValidLinhas(f, i + 1)

\* the strokes on the surface, in the order drawn
Strokes == SelectSeq(context.surface.ops, LAMBDA o : o.op = "stroke")

\* C1: a render of a figure with at least one point returns nil and does not
\* crash whatever the edge indices are (>= len(Pontos) or negative); an edge
\* with an index out of range leaves no stroke and every edge with both
\* indices in range is stroked between its two projected points.
C1_OutOfRangeEdgesSkipped ==
    (call.op = "RenderFigureWithConfig" /\ Len(call.figure.Pontos) >= 1) =>
        /\ pc = "run"
        /\ ret.err = Nil
        /\ LET valid == ValidLinhas(call.figure, 1)
           IN  /\ Len(Strokes) = Len(valid)
               /\ \A i \in 1..Len(valid) :
                     /\ Strokes[i].from
                          = ProjectPoint(renderer, call.figure.Pontos[valid[i].P1 + 1])
                     /\ Strokes[i].to
                          = ProjectPoint(renderer, call.figure.Pontos[valid[i].P2 + 1])

\* C2: a render of a figure without points returns an error and draws nothing:
\* surface, colour and line width are as before the call, and so is the
\* renderer, so that the next render finds the state the failed one found.
C2_NoPointsNoDrawing ==
    [][(call'.op = "RenderFigureWithConfig" /\ Len(call'.figure.Pontos) = 0) =>
          /\ pc' = "run"
          /\ ret'.err # Nil
          /\ context' = context
          /\ renderer' = renderer]_vars

\* the failed render came after a render that left strokes in a colour and a
\* width other than those of a new renderer
C2_Witness ==
    /\ call.op = "RenderFigureWithConfig"
    /\ Len(call.figure.Pontos) = 0
    /\ ret.err = ErrRenderNoPoints
    /\ Len(Strokes) >= 1
    /\ context.color # Black
    /\ context.lineWidth # Int2F(1)

\* the render returned nil (and did not panic)
RenderSucceeded ==
    /\ call.op = "RenderFigureWithConfig"
    /\ pc = "run"
    /\ ret.err = Nil

\* C11: a render projects the vertices with the camera of the figure passed to
\* it, whatever camera the renderer holds: every stroke of a successful render
\* joins the projections of its edge's two points under figure.Camera.
C11_ProjectsWithFigureCamera ==
    RenderSucceeded =>
        LET valid == ValidLinhas(call.figure, 1)
            withFigureCamera == SetCamera(renderer, call.figure.Camera)
        IN  /\ Len(Strokes) = Len(valid)
            /\ \A i \in 1..Len(valid) :
                  /\ Strokes[i].from
                       = ProjectPoint(withFigureCamera, call.figure.Pontos[valid[i].P1 + 1])
                  /\ Strokes[i].to
                       = ProjectPoint(withFigureCamera, call.figure.Pontos[valid[i].P2 + 1])

\* the draw operations on the surface since the last fill, in the order drawn
Ops == context.surface.ops

\* C19: in every successful render the background fill comes first (the
\* surface is filled with the background colour and holds only what was drawn
\* after the fill), every edge stroke comes before any vertex disc or label,
\* and the edges are stroked in the order of the figure's edge list.
C19_FillThenEdgesThenMarkers ==
    RenderSucceeded =>
        /\ context.surface.fill = cfg.Background
        /\ \A i, j \in 1..Len(Ops) :
              (i < j /\ Ops[j].op = "stroke") => Ops[i].op = "stroke"
        /\ LET valid == ValidLinhas(call.figure, 1)
           IN  /\ Len(Strokes) = Len(valid)
               /\ \A i \in 1..Len(valid) :
                     /\ Strokes[i].from
                          = ProjectPoint(renderer, call.figure.Pontos[valid[i].P1 + 1])
                     /\ Strokes[i].to
                          = ProjectPoint(renderer, call.figure.Pontos[valid[i].P2 + 1])

\* a render under the figure's camera that stroked two different edges and
\* then drew a disc and a label
C19_Witness ==
    /\ RenderSucceeded
    /\ renderer.camera = FigureCamera
    /\ Len(Strokes) = 2
    /\ Strokes[1] # Strokes[2]
    /\ Len(Ops) >= 4
    /\ Ops[3].op = "disc"
    /\ \E i \in 1..Len(Ops) : Ops[i].op = "text"

\* the discs and the labels on the surface, in the order drawn
Discs == SelectSeq(Ops, LAMBDA o : o.op = "disc")
Labels == SelectSeq(Ops, LAMBDA o : o.op = "text")

\* the points that have a name, in list order
NamedPontos(pontos) == SelectSeq(pontos, LAMBDA p : p.Nome # "")

\* C20: after a successful render there is one disc per point when
\* ShowVertices is set and none otherwise, and one label per named point when
\* ShowLabels is set and none otherwise, under each of the four pairs of flags;
\* the i-th disc is at the projection of the i-th point and the k-th label is
\* the name of the k-th named point, at its projection moved by (+5, -5).
C20_DiscsAndLabelsPerPoint ==
    RenderSucceeded =>
        LET pontos == call.figure.Pontos
            named == NamedPontos(pontos)
        IN  /\ Len(Discs) = IF cfg.ShowVertices THEN Len(pontos) ELSE 0
            /\ \A i \in 1..Len(Discs) :
                  /\ Discs[i].at = ProjectPoint(renderer, pontos[i])
                  /\ Discs[i].radius = 2
            /\ Len(Labels) = IF cfg.ShowLabels THEN Len(named) ELSE 0
            /\ \A k \in 1..Len(Labels) :
                  /\ Labels[k].s = named[k].Nome
                  /\ Labels[k].at = labelAt(ProjectPoint(renderer, named[k]))

\* labels without vertices, under the figure's camera: of a named and an
\* unnamed point only the named one is labelled, beside its projection
C20_Witness ==
    /\ RenderSucceeded
    /\ renderer.camera = FigureCamera
    /\ cfg.ShowLabels /\ ~cfg.ShowVertices
    /\ Len(call.figure.Pontos) = 2
    /\ call.figure.Pontos[2] = PontoA
    /\ Len(Discs) = 0
    /\ Len(Labels) = 1
    /\ Labels[1].s = "A"
    /\ Labels[1].at = labelAt(ProjectPoint(renderer, PontoA))
    /\ Labels[1].at # labelAt(ProjectPoint(renderer, PontoB))

\* C21: in a successful render every disc is filled in the vertex colour and
\* every label is drawn in the line colour, for any interleaving of named and
\* unnamed points and in particular with ShowVertices and ShowLabels both
\* set: the label of a point does not leave the line colour to the disc of
\* the next point.
C21_DiscAndLabelColours ==
    RenderSucceeded =>
        \A i \in 1..Len(Ops) :
            /\ Ops[i].op = "disc" => Ops[i].color = cfg.VertexColor
            /\ Ops[i].op = "text" => Ops[i].color = cfg.LineColor

\* both flags set: the label of a named point is followed by the disc of the
\* next point, and the two colours differ
C21_Witness ==
    /\ RenderSucceeded
    /\ cfg.ShowVertices /\ cfg.ShowLabels
    /\ cfg.VertexColor # cfg.LineColor
    /\ \E i \in 1..(Len(Ops) - 1) :
          /\ Ops[i].op = "text" /\ Ops[i].color = cfg.LineColor
          /\ Ops[i + 1].op = "disc" /\ Ops[i + 1].color = cfg.VertexColor

\* C27: a figure that validateFigure accepts is rendered without error or
\* crash and with none of its edges skipped: the surface holds one stroke for
\* each edge.  The skip of the edge loop fires only for figures that
\* validateFigure rejects.
C27_ValidFigureFullyStroked ==
    call.op = "RenderFigureWithConfig" =>
        /\ validateFigure(call.figure) = Nil =>
              /\ RenderSucceeded
              /\ Len(Strokes) = Len(call.figure.Linhas)
        /\ (\E i \in 1..Len(call.figure.Linhas) :
                skipLinha(call.figure.Linhas[i], Len(call.figure.Pontos)))
              => validateFigure(call.figure) # Nil

\* a valid figure with two edges, one of them into the last vertex, rendered
C27_Witness ==
    /\ RenderSucceeded
    /\ validateFigure(call.figure) = Nil
    /\ Len(call.figure.Pontos) = 2
    /\ Len(call.figure.Linhas) = 2
    /\ call.figure.Linhas[2].P2 = 1
    /\ Len(Strokes) = 2

\* C28: after every successful render, under each of the four pairs of flags
\* and with named and unnamed points, the current colour of the context is the
\* line colour of the configuration and the current line width is its line
\* width.
C28_LineStyleLeftCurrent ==
    RenderSucceeded =>
        /\ context.color = cfg.LineColor
        /\ context.lineWidth = cfg.LineWidth

\* vertices shown after named and unnamed points: the last thing drawn is a
\* disc in the vertex colour, and the line colour is current again
C28_Witness ==
    /\ RenderSucceeded
    /\ cfg.ShowVertices /\ cfg.ShowLabels
    /\ cfg.VertexColor # cfg.LineColor
    /\ Len(Labels) > 0
    /\ Ops[Len(Ops)].op = "disc"
    /\ Ops[Len(Ops)].color = cfg.VertexColor
    /\ context.color = cfg.LineColor
    /\ context.lineWidth = Int2F(2)

-----------------------------------------------------------------------------
(* Session claims *)

\* the step is a call of RenderFigureWithConfig or of ProjectPoint
RenderOrProjectStep ==
    /\ call'.op \in {"RenderFigureWithConfig", "ProjectPoint"}
    /\ vars' # vars

\* C22: a call of RenderFigureWithConfig or of ProjectPoint leaves the figure
\* (points, names, edges, camera, render settings), the configuration and the
\* renderer's camera, width, height and centre as they were; the render writes
\* the drawing context only, and the projection writes nothing but its result.
C22_RenderAndProjectFrame ==
    [][RenderOrProjectStep =>
          /\ figure' = figure
          /\ cfg' = cfg
          /\ renderer' = renderer
          /\ call'.op = "ProjectPoint" => context' = context]_vars

\* a render that has just written the surface and the current colour and
\* width, of a figure with render settings, on a renderer with a camera
C22_Witness ==
    /\ call.op = "RenderFigureWithConfig"
    /\ ret # Nil /\ ret.err = Nil
    /\ figure.Render # Nil
    /\ renderer.camera = DefaultCamera
    /\ figure.Camera # renderer.camera
    /\ Len(context.surface.ops) > 0
    /\ context.color # Black
    /\ context.lineWidth = Int2F(2)

\* a call of RenderFigureWithConfig of the session has returned nil
RenderedAgain ==
    /\ call.op = "RenderFigureWithConfig"
    /\ ret # Nil /\ ret.err = Nil

\* a renderer from New with the size and the camera of the session's renderer
FreshRenderer == SetCamera(New(renderer.width, renderer.height), renderer.camera)

\* C23: after a successful render of (figure, cfg) on a renderer whose surface
\* already holds earlier drawing (renders of any figure with any configuration,
\* grids), the surface holds exactly what one render of (figure, cfg) on a fresh
\* renderer of the same size with the same camera leaves: the background fill
\* and the same draw operations, and nothing of the earlier drawing.
C23_RenderIsHistoryIndependent ==
    RenderedAgain =>
        context.surface =
            RenderFigureWithConfig(FreshRenderer, NewCtx, figure, cfg).context.surface

\* a render on a surface that held a grey fill and, after the operations of an
\* earlier render, the lines of a grid
C23_Witness ==
    /\ RenderedAgain
    /\ call.before.surface.fill # cfg.Background
    /\ Len(call.before.surface.ops) > Len(context.surface.ops)
    /\ call.before.surface.ops[1].op = "stroke"
    /\ call.before.surface.ops[1].lineWidth = Int2F(2)
    /\ call.before.surface.ops[Len(call.before.surface.ops)].op = "stroke"
    /\ call.before.surface.ops[Len(call.before.surface.ops)].lineWidth = Tenths(5)
    /\ context.surface.fill = White
    /\ Len(context.surface.ops) > 0

\* a call of AddGrid has returned
GridAdded == call.op = "AddGrid"

\* the draw operations the last call appended to the surface it found
Appended ==
    SubSeq(context.surface.ops, Len(call.before.surface.ops) + 1,
           Len(context.surface.ops))

\* the multiples of 50 below a bound
GridPositions(bound) == {x \in 0..(bound - 1) : x % 50 = 0}

\* the segments of the vertical and of the horizontal grid lines
GridSegments ==
    {<<Point2D(Int2F(x), Int2F(0)), Point2D(Int2F(x), Int2F(renderer.height))>> :
        x \in GridPositions(renderer.width)}
    \cup {<<Point2D(Int2F(0), Int2F(y)), Point2D(Int2F(renderer.width), Int2F(y))>> :
        y \in GridPositions(renderer.height)}

\* AddGrid appended one stroke for each grid line and nothing else
GridLinesDrawn ==
    /\ SubSeq(context.surface.ops, 1, Len(call.before.surface.ops))
           = call.before.surface.ops
    /\ context.surface.fill = call.before.surface.fill
    /\ Len(Appended) = Cardinality(GridSegments)
    /\ \A i \in 1..Len(Appended) : Appended[i].op = "stroke"
    /\ {<<Appended[i].from, Appended[i].to>> : i \in 1..Len(Appended)} = GridSegments

\* C24: AddGrid leaves the current colour and line width as they were
\* immediately before the call, also after a render with a line colour or a
\* line width that is not the default, and it draws the vertical lines at
\* x = 0, 50, ... < width and the horizontal lines at y = 0, 50, ... < height.
C24_AddGridRestoresStyle ==
    GridAdded =>
        /\ context.color = call.before.color
        /\ context.lineWidth = call.before.lineWidth
        /\ GridLinesDrawn

-----------------------------------------------------------------------------
(* Generate command claims *)

\* the steps of generatePNG before the image is written, in order
StepsBeforeSave ==
    <<"LoadFigureFromYAML", "ConfigFromFigure", "New", "RenderFigureWithConfig">>

\* the load, the configuration and the render of this run all succeeded
AllSucceeded ==
    /\ LoadFigureFromYAML(file).err = Nil
    /\ figure = LoadFigureFromYAML(file).figure
    /\ ConfigFromFigure(figure).err = Nil
    /\ cfg = ConfigFromFigure(figure).config
    /\ RenderFigureWithConfig(renderer, NewCtx, figure, cfg).err = Nil
    /\ context = RenderFigureWithConfig(renderer, NewCtx, figure, cfg).context

\* C26: generatePNG writes the output image only after the load with its
\* validation, the configuration and the render have succeeded, in that order:
\* an image exists only when those steps ran in order and all returned nil,
\* and a run ended by a load, colour or render error has written no image at
\* all, complete or partial.
C26_SaveOnlyAfterSuccess ==
    /\ output # Nil =>
          /\ call.steps = Append(StepsBeforeSave, "SaveImage")
          /\ AllSucceeded
          /\ ~output.partial => output.image = context.surface
    /\ (pc = "fatal" /\ call.steps[Len(call.steps)] # "SaveImage") => output = Nil
    /\ pc = "save" => (call.steps = StepsBeforeSave /\ AllSucceeded)

\* the image of a file with a canvas size and colours of its own was written
C26_Witness ==
    /\ pc = "exit"
    /\ output # Nil /\ ~output.partial
    /\ figure.Render # Nil
    /\ renderer.width = 200
    /\ cfg.Background = Black
    /\ output.image.fill = Black
    /\ Len(output.image.ops) > 2

-----------------------------------------------------------------------------
(* Viewer claims *)

\* C25: in the viewer, after any sequence of loads, reloads, control edits and
\* renders, the camera of the renderer that renderFigure created has a
\* distance above zero: a distance of zero or below typed into the control is
\* not used for a render.
C25_RenderDistancePositive ==
    renderer # Nil => FLt(FZero, renderer.camera.Distance)

\* loadFigure has just returned after a load without error
FigureLoaded == call.op = "loadFigure" /\ ret.err = Nil

\* the figure that the loader returns for the file
Loaded == LoadFigureFromYAML(file).figure

\* C29: after a successful loadFigure, no control having been edited, the
\* camera of the render that loadFigure triggered, which is also the camera
\* stored back into the figure, is the camera of the loaded figure: observer
\* X, Y, Z and distance written to the controls and read back are the same
\* values, and width and height are those of the loaded figure.
C29_LoadKeepsCamera ==
    FigureLoaded =>
        /\ renderer.camera = Loaded.Camera
        /\ viewer.figura.Camera = Loaded.Camera

\* the step is a run of loadFigure
LoadFigureStep == call'.op = "loadFigure" /\ vars' # vars

\* the canvas size and render configuration that the figure of the file asks for
CanvasWidthOf(f) ==
    IF f.Render # Nil /\ f.Render.CanvasWidth > 0 THEN f.Render.CanvasWidth ELSE 800

CanvasHeightOf(f) ==
    IF f.Render # Nil /\ f.Render.CanvasHeight > 0 THEN f.Render.CanvasHeight ELSE 600

RenderCfgOf(f) ==
    IF ConfigFromFigure(f).err = Nil THEN ConfigFromFigure(f).config
    ELSE DefaultRenderConfig

\* C30: a loadFigure that fails (unreadable file, bad YAML, invalid figure)
\* changes the status text and nothing else: figure, camera, render
\* configuration, canvas size, image and camera controls stay; a loadFigure
\* that succeeds leaves the canvas size and the render configuration that the
\* newly loaded figure alone determines (800 x 600 unless it gives a positive
\* size, the default configuration when its colours are invalid).
C30_LoadFigureFrame ==
    [][LoadFigureStep =>
          IF ret'.err # Nil
          THEN /\ viewer' = [viewer EXCEPT !.status = "Erro"]
               /\ renderer' = renderer
               /\ context' = context
          ELSE /\ viewer'.canvasWidth = CanvasWidthOf(Loaded)
               /\ viewer'.canvasHeight = CanvasHeightOf(Loaded)
               /\ viewer'.renderCfg = RenderCfgOf(Loaded)
               /\ viewer'.image.width = CanvasWidthOf(Loaded)
               /\ viewer'.image.height = CanvasHeightOf(Loaded)]_vars

\* a reload that failed on a viewer showing a figure with a canvas size and a
\* configuration of its own and an edited control
C30_Witness ==
    /\ call.op = "loadFigure"
    /\ ret.err # Nil
    /\ viewer.status = "Erro"
    /\ viewer.figura # Nil
    /\ viewer.canvasWidth = 200
    /\ viewer.renderCfg # DefaultRenderConfig
    /\ viewer.distEntry = <<"-", "2">>
    /\ viewer.image.width = 200

=============================================================================
